---------------------------- MODULE Spec2Model ----------------------------
(***************************************************************************)
(* Verification model of the bilingual blog validator                      *)
(* (scripts/validate-blog-posts.ts): front-matter parser, post loader,     *)
(* field validator, cross-language link validator and reporter.            *)
(*                                                                         *)
(* Text is a sequence of characters.  The characters the parser reacts to  *)
(* (space, newline, colon, quotes, dash, '#', brackets, comma) are         *)
(* themselves; every other token ("title", "foo", ...) stands for a run of *)
(* ordinary letters and is treated as one opaque letter.                   *)
(***************************************************************************)
EXTENDS Integers, Sequences, FiniteSets, TLC

VARIABLES
  fs,          \* the content root: [es |-> directory, en |-> directory]
  pc,          \* where main is
  loader,      \* getBlogPosts' loop position
  posts,       \* the BlogPost sequence
  fieldErrors, \* validateBlogPosts' result
  linkErrors,  \* validateRelatedSlugs' result
  allErrors,   \* [...fieldErrors, ...linkErrors]
  stdout,      \* the lines printed with console.log
  stderr,      \* the lines printed with console.error
  exitCode,    \* the process' exit status (-1 while it runs)
  history,     \* what the earlier runs over this content set ended with
  util,        \* the last call of a utility function, and its result
  scroll,      \* the page with the scroll-to-top button (utils/scrollToTop.ts)
  dropdown     \* a DropdownManager and its menu (utils/dropdown.ts)

vars ==
  <<fs, pc, loader, posts, fieldErrors, linkErrors, allErrors, stdout, stderr,
    exitCode, history, util, scroll, dropdown>>

\* ------------------------------------------------------------------ text

SP == " "
NL == "\n"
DQ == "\""
SQ == "'"

\* JavaScript \s restricted to the alphabet of the model
IsSpace(c) == c \in {SP, NL}

\* the characters matched by the class ["'] of the quote-stripping regexp
IsQuote(c) == c \in {DQ, SQ}

RECURSIVE CountLeadingSpace(_)
\* number of whitespace characters at the start of s
CountLeadingSpace(s) ==
  IF s = <<>> \/ ~IsSpace(Head(s)) THEN 0 ELSE 1 + CountLeadingSpace(Tail(s))

RECURSIVE CountTrailingSpace(_)
CountTrailingSpace(s) ==
  IF s = <<>> \/ ~IsSpace(s[Len(s)]) THEN 0
  ELSE 1 + CountTrailingSpace(SubSeq(s, 1, Len(s) - 1))

\* String.prototype.trimStart
trimStart(s) == SubSeq(s, CountLeadingSpace(s) + 1, Len(s))

\* String.prototype.trim
trim(s) ==
  LET t == trimStart(s) IN SubSeq(t, 1, Len(t) - CountTrailingSpace(t))

\* String.prototype.startsWith
startsWith(s, p) == Len(s) >= Len(p) /\ SubSeq(s, 1, Len(p)) = p

\* String.prototype.endsWith
endsWith(s, p) ==
  Len(s) >= Len(p) /\ SubSeq(s, Len(s) - Len(p) + 1, Len(s)) = p

RECURSIVE IndexFrom(_, _, _)
\* first index i >= from with p starting at s[i]; 0 when there is none
IndexFrom(s, p, from) ==
  IF from + Len(p) - 1 > Len(s) THEN 0
  ELSE IF SubSeq(s, from, from + Len(p) - 1) = p THEN from
  ELSE IndexFrom(s, p, from + 1)

\* String.prototype.indexOf, 1-based (0: not found)
indexOf(s, p) == IndexFrom(s, p, 1)

\* String.prototype.includes
includes(s, p) == indexOf(s, p) # 0

RECURSIVE split(_, _)
\* String.prototype.split on a one-character separator
split(s, c) ==
  LET i == indexOf(s, <<c>>) IN
  IF i = 0 THEN <<s>>
  ELSE <<SubSeq(s, 1, i - 1)>> \o split(SubSeq(s, i + 1, Len(s)), c)

\* s.replace(/^["']|["']$/g, ""): one leading quote, then one trailing quote
StripQuotes(s) ==
  LET a == IF s # <<>> /\ IsQuote(Head(s)) THEN Tail(s) ELSE s IN
  IF a # <<>> /\ IsQuote(a[Len(a)]) THEN SubSeq(a, 1, Len(a) - 1) ELSE a

\* ------------------------------------------------------- JavaScript values

Undefined == [t |-> "undefined"]
JStr(s) == [t |-> "string", v |-> s]
JBool(b) == [t |-> "boolean", v |-> b]
JArr(a) == [t |-> "array", v |-> a]
JObj(m) == [t |-> "object", v |-> m]

IsStr(x) == x.t = "string"

\* ToBoolean: what !x negates
Truthy(x) ==
  CASE x.t = "undefined" -> FALSE
    [] x.t = "string" -> x.v # <<>>
    [] x.t = "boolean" -> x.v
    [] OTHER -> TRUE

\* a property read obj[k] of a parsed mapping
Get(d, k) == IF k \in DOMAIN d THEN d[k] ELSE Undefined

\* a property write obj[k] = x
Put(d, k, x) == [j \in DOMAIN d \cup {k} |-> IF j = k THEN x ELSE d[j]]

\* x === s for a string s
StrictEqStr(x, s) == IsStr(x) /\ x.v = s


\* the template-literal conversion `${x}`
TemplateString(x) ==
  CASE x.t = "undefined" -> <<"undefined">>
    [] x.t = "string" -> x.v
    [] x.t = "boolean" -> IF x.v THEN <<"true">> ELSE <<"false">>
    [] x.t = "array" ->
         LET RECURSIVE Join(_, _)
             Join(a, i) ==
               IF i > Len(a) THEN <<>>
               ELSE (IF i > 1 THEN <<",">> ELSE <<>>) \o a[i] \o Join(a, i + 1)
         IN Join(x.v, 1)
    [] OTHER -> <<"[object Object]">>

\* `${x}` throws a TypeError: ToPrimitive finds x.toString not callable (an
\* own property toString of a parsed object is a string), and valueOf gives
\* back the object itself
ToPrimitiveThrows(x) == x.t = "object" /\ <<"toString">> \in DOMAIN x.v

\* ------------------------------------------------------ parseFrontmatter

Marker == <<"-", "-", "-">>

RECURSIVE LastNewline(_, _, _)
\* the greatest p in lo..hi with s[p] a newline; 0 when there is none
LastNewline(s, lo, hi) ==
  IF hi < lo THEN 0
  ELSE IF s[hi] = NL THEN hi
  ELSE LastNewline(s, lo, hi - 1)

\* content.match(/^---\s*\n([\s\S]*?)\n---/): whether it matches, and group 1.
\* \s* is greedy and gives characters back until a newline follows it; the
\* group is lazy and ends at the first "\n---" after it.
MatchFrontmatter(content) ==
  IF ~startsWith(content, Marker) THEN [found |-> FALSE, text |-> <<>>]
  ELSE
    LET w == CountLeadingSpace(SubSeq(content, 4, Len(content)))
        p == LastNewline(content, 4, 3 + w)
        q == IF p = 0 THEN 0 ELSE IndexFrom(content, <<NL>> \o Marker, p + 1)
        p2 == IF p = 0 THEN 0 ELSE LastNewline(content, 4, p - 1)
    IN
    IF p = 0 THEN [found |-> FALSE, text |-> <<>>]
    ELSE IF q # 0 THEN [found |-> TRUE, text |-> SubSeq(content, p + 1, q - 1)]
    ELSE IF p2 # 0 /\ startsWith(SubSeq(content, p, Len(content)), <<NL>> \o Marker)
      THEN [found |-> TRUE, text |-> SubSeq(content, p2 + 1, p - 1)]
    ELSE [found |-> FALSE, text |-> <<>>]

\* the parser's loop state before the first line: data = {}, currentKey =
\* null, currentObject = null.  currentKey is only ever tested for
\* truthiness, so null and "" are both the empty string here.  obj says what
\* currentObject refers to: "null", "attached" (the object stored at
\* data[currentKey]) or "orphan" (an object that data no longer holds).
ParserInit == [data |-> <<>>, currentKey |-> <<>>, obj |-> "null"]

\* a nested pair whose value is the text between the first and the second
\* colon only
NestedLineSecondPart(st, trimmed) ==
  LET parts == split(trimmed, ":")
      key == trim(parts[1])
      value == IF Len(parts) < 2 THEN <<>> ELSE StripQuotes(trim(parts[2]))
  IN
  IF st.obj = "attached"
    THEN [st EXCEPT !.data =
            Put(st.data, st.currentKey,
                JObj(Put(st.data[st.currentKey].v, key, value)))]
    ELSE st

\* lines 62-64: a nested "key: value" pair written into currentObject
NestedLine(st, trimmed) ==
  LET parts == split(trimmed, ":")
      key == trim(parts[1])
      i == indexOf(trimmed, <<":">>)
      joined == IF i = 0 THEN <<>> ELSE SubSeq(trimmed, i + 1, Len(trimmed))
      value == StripQuotes(trim(joined))
  IN
  IF st.obj = "attached"
    THEN [st EXCEPT !.data =
            Put(st.data, st.currentKey,
                JObj(Put(st.data[st.currentKey].v, key, value)))]
    ELSE st

\* lines 70-75: a "- item" line appended to the array at data[currentKey]
ArrayLine(st, trimmed) ==
  LET item == StripQuotes(trim(SubSeq(trimmed, 3, Len(trimmed))))
      old == Get(st.data, st.currentKey)
      arr == IF old.t = "array" THEN old.v ELSE <<>>
  IN
  IF st.currentKey = <<>> THEN st
  ELSE [st EXCEPT
          !.data = Put(st.data, st.currentKey, JArr(Append(arr, item))),
          !.obj = IF old.t # "array" /\ st.obj = "attached"
                    THEN "orphan" ELSE st.obj]

\* lines 96-99: value.slice(1, -1).split(",").map(trim and strip quotes)
InlineArray(value) ==
  LET parts == split(SubSeq(value, 2, Len(value) - 1), ",")
  IN [i \in 1..Len(parts) |-> StripQuotes(trim(parts[i]))]

\* a root-level line whose value true or false stays a string
RootLineNoBoolean(st, trimmed) ==
  LET colonIndex == indexOf(trimmed, <<":">>)
      key == trim(SubSeq(trimmed, 1, colonIndex - 1))
      value == StripQuotes(trim(SubSeq(trimmed, colonIndex + 1, Len(trimmed))))
  IN
  IF value = <<>>
    THEN [data |-> Put(st.data, key, JObj(<<>>)), currentKey |-> key,
          obj |-> "attached"]
  ELSE IF startsWith(value, <<"[">>) /\ endsWith(value, <<"]">>)
    THEN [data |-> Put(st.data, key, JArr(InlineArray(value))),
          currentKey |-> key, obj |-> "null"]
  ELSE [data |-> Put(st.data, key, JStr(value)), currentKey |-> key,
        obj |-> "null"]

\* lines 81-107: a "key: value" line at the root level
RootLine(st, trimmed) ==
  LET colonIndex == indexOf(trimmed, <<":">>)
      key == trim(SubSeq(trimmed, 1, colonIndex - 1))
      value == StripQuotes(trim(SubSeq(trimmed, colonIndex + 1, Len(trimmed))))
  IN
  IF value = <<>>
    THEN [data |-> Put(st.data, key, JObj(<<>>)), currentKey |-> key,
          obj |-> "attached"]
  ELSE IF startsWith(value, <<"[">>) /\ endsWith(value, <<"]">>)
    THEN [data |-> Put(st.data, key, JArr(InlineArray(value))),
          currentKey |-> key, obj |-> "null"]
  ELSE IF value = <<"true">> \/ value = <<"false">>
    THEN [data |-> Put(st.data, key, JBool(value = <<"true">>)),
          currentKey |-> key, obj |-> "null"]
  ELSE [data |-> Put(st.data, key, JStr(value)), currentKey |-> key,
        obj |-> "null"]

\* a loop body that takes an indented "key: value" line for a root-level one
ParseLineAnyIndent(st, line) ==
  LET trimmed == trim(line)
      leadingSpaces == Len(line) - Len(trimStart(line))
  IN
  IF trimmed = <<>> \/ startsWith(trimmed, <<"#">>) THEN st
  ELSE IF leadingSpaces >= 2 /\ st.currentKey # <<>> /\ st.obj # "null"
    THEN NestedLine(st, trimmed)
  ELSE IF startsWith(trimmed, <<"-", SP>>) THEN ArrayLine(st, trimmed)
  ELSE IF includes(trimmed, <<":">>) THEN RootLine(st, trimmed)
  ELSE st

\* lines 52-108: the body of the loop for one line
ParseLine(st, line) ==
  LET trimmed == trim(line)
      leadingSpaces == Len(line) - Len(trimStart(line))
  IN
  IF trimmed = <<>> \/ startsWith(trimmed, <<"#">>) THEN st
  ELSE IF leadingSpaces >= 2 /\ st.currentKey # <<>> /\ st.obj # "null"
    THEN NestedLine(st, trimmed)
  ELSE IF startsWith(trimmed, <<"-", SP>>) THEN ArrayLine(st, trimmed)
  ELSE IF includes(trimmed, <<":">>) /\ leadingSpaces = 0
    THEN RootLine(st, trimmed)
  ELSE st

RECURSIVE ParseLines(_, _, _)
\* lines 51-109: the loop over the header's lines
ParseLines(st, lines, i) ==
  IF i > Len(lines) THEN st
  ELSE ParseLines(ParseLine(st, lines[i]), lines, i + 1)

\* parseFrontmatter(content): the mapping it returns
parseFrontmatter(content) ==
  LET m == MatchFrontmatter(content) IN
  IF ~m.found THEN <<>>
  ELSE ParseLines(ParserInit, split(m.text, NL), 1).data

\* ------------------------------------------------------------ validators

title == <<"title">>
description == <<"description">>
pubDate == <<"pubDate">>
relatedSlug == <<"relatedSlug">>
draft == <<"draft">>
tags == <<"tags">>
author == <<"author">>
image == <<"image">>
url == <<"url">>
alt == <<"alt">>

\* a ValidationError
Finding(type, file, message) ==
  [type |-> type, file |-> file, message |-> message]

\* x.k for a parsed value x: only an object has own properties url and alt
Prop(x, k) ==
  IF x.t = "object" /\ k \in DOMAIN x.v THEN JStr(x.v[k]) ELSE Undefined

\* x.length === 0: true of the empty array only (a truthy string is not empty)
LengthIsZero(x) == x.t = "array" /\ Len(x.v) = 0

\* a list of required fields that leaves pubDate out
requiredFieldsNoPubDate == <<title, description, relatedSlug>>

\* line 146
requiredFields == <<title, description, pubDate, relatedSlug>>

MissingRequired(field) == <<"Missing required field: ">> \o field
MissingDraft == <<"Missing 'draft' field (defaults to false)">>
NoTags == <<"No tags specified">>
MissingAuthor == <<"Missing 'author' field (defaults to Oscar Gallego)">>
NoImage == <<"No image specified">>
ImageMissingUrl == <<"Image object missing 'url' field">>
ImageMissingAlt == <<"Image missing 'alt' text">>

RECURSIVE RequiredFindings(_, _)
\* lines 152-160: the loop over requiredFields for one post
RequiredFindings(post, i) ==
  IF i > Len(requiredFields) THEN <<>>
  ELSE (IF ~Truthy(Get(post.data, requiredFields[i]))
          THEN <<Finding("error", post.filePath,
                         MissingRequired(requiredFields[i]))>>
          ELSE <<>>)
       \o RequiredFindings(post, i + 1)

\* a draft check written !post.data.draft, which also flags draft: false
DraftFindingsFalsy(post) ==
  IF ~Truthy(Get(post.data, draft))
    THEN <<Finding("warning", post.filePath, MissingDraft)>> ELSE <<>>

\* lines 162-169
DraftFindings(post) ==
  IF Get(post.data, draft).t = "undefined"
    THEN <<Finding("warning", post.filePath, MissingDraft)>> ELSE <<>>

\* lines 171-178
TagsFindings(post) ==
  IF ~Truthy(Get(post.data, tags)) \/ LengthIsZero(Get(post.data, tags))
    THEN <<Finding("warning", post.filePath, NoTags)>> ELSE <<>>

\* lines 180-187
AuthorFindings(post) ==
  IF ~Truthy(Get(post.data, author))
    THEN <<Finding("warning", post.filePath, MissingAuthor)>> ELSE <<>>

\* an image check whose alt test does not depend on the url test
ImageFindingsNoElse(post) ==
  LET img == Get(post.data, image) IN
  IF ~Truthy(img) THEN <<Finding("warning", post.filePath, NoImage)>>
  ELSE (IF ~Truthy(Prop(img, url))
          THEN <<Finding("error", post.filePath, ImageMissingUrl)>>
          ELSE <<>>)
       \o (IF ~Truthy(Prop(img, alt))
             THEN <<Finding("warning", post.filePath, ImageMissingAlt)>>
             ELSE <<>>)

\* lines 189-208
ImageFindings(post) ==
  LET img == Get(post.data, image) IN
  IF ~Truthy(img) THEN <<Finding("warning", post.filePath, NoImage)>>
  ELSE IF ~Truthy(Prop(img, url))
    THEN <<Finding("error", post.filePath, ImageMissingUrl)>>
  ELSE IF ~Truthy(Prop(img, alt))
    THEN <<Finding("warning", post.filePath, ImageMissingAlt)>>
  ELSE <<>>

\* an iteration that checks the image before the other fields
FieldFindingsImageFirst(post) ==
  ImageFindings(post) \o RequiredFindings(post, 1) \o DraftFindings(post)
    \o TagsFindings(post) \o AuthorFindings(post)

\* lines 148-209: what one iteration of validateBlogPosts pushes
FieldFindings(post) ==
  RequiredFindings(post, 1) \o DraftFindings(post) \o TagsFindings(post)
    \o AuthorFindings(post) \o ImageFindings(post)

RECURSIVE validateBlogPostsFrom(_, _)
validateBlogPostsFrom(ps, i) ==
  IF i > Len(ps) THEN <<>>
  ELSE FieldFindings(ps[i]) \o validateBlogPostsFrom(ps, i + 1)

\* validateBlogPosts(posts)
validateBlogPosts(ps) == validateBlogPostsFrom(ps, 1)

NoTranslationLink == <<"No translation link (relatedSlug) specified">>
PointsToItself(rs) ==
  <<"relatedSlug points to itself: ", DQ>> \o TemplateString(rs) \o <<DQ>>
NotFound(rs, targetLang) ==
  <<"relatedSlug ", DQ>> \o TemplateString(rs)
    \o <<DQ, " not found in ", targetLang, " posts">>
Mismatch(rs, back, slug) ==
  <<"relatedSlug mismatch: this post links to ", DQ>> \o TemplateString(rs)
    \o <<DQ, ", but that post links to ", DQ>> \o TemplateString(back)
    \o <<DQ, " instead of ", DQ>> \o slug \o <<DQ>>

\* the lookup done in the post's own language
OtherLangSame(lang) == lang

\* line 244
OtherLang(lang) == IF lang = "es" THEN "en" ELSE "es"

\* a lookup in one Map of all posts, whatever their language
MapGetAnyLang(ps, lang, key) ==
  LET hits == {i \in 1..Len(ps) : StrictEqStr(key, ps[i].slug)}
  IN IF hits = {} THEN 0 ELSE CHOOSE i \in hits : \A j \in hits : j <= i

\* postsByLang[lang].get(key): the index in posts of the entry the Map holds
\* for key (a later post with the same slug replaces an earlier one), 0 when
\* the Map has none.  A key that is not a string equals no slug.
MapGet(ps, lang, key) ==
  LET hits == {i \in 1..Len(ps) :
                 ps[i].lang = lang /\ StrictEqStr(key, ps[i].slug)}
  IN IF hits = {} THEN 0 ELSE CHOOSE i \in hits : \A j \in hits : j <= i

\* a validator that reports a broken pair once, from the es side only
LinkFindingsOneSided(ps, post) ==
  LET rs == Get(post.data, relatedSlug)
      targetLang == IF post.lang = "es" THEN "en" ELSE "es"
      hits == {i \in 1..Len(ps) :
                 ps[i].lang = targetLang /\ StrictEqStr(rs, ps[i].slug)}
      r == IF hits = {} THEN 0 ELSE CHOOSE i \in hits : \A j \in hits : j <= i
      back == Get(ps[r].data, relatedSlug)
  IN
  IF ~Truthy(rs)
    THEN <<Finding("warning", post.filePath, NoTranslationLink)>>
  ELSE IF StrictEqStr(rs, post.slug)
    THEN <<Finding("error", post.filePath, PointsToItself(rs))>>
  ELSE IF r = 0
    THEN <<Finding("error", post.filePath, NotFound(rs, targetLang))>>
  ELSE IF ~StrictEqStr(back, post.slug) /\ post.lang = "es"
    THEN <<Finding("error", post.filePath, Mismatch(rs, back, post.slug))>>
  ELSE <<>>

\* a validator without the self-reference check of lines 233-241
LinkFindingsNoSelfCheck(ps, post) ==
  LET rs == Get(post.data, relatedSlug)
      targetLang == IF post.lang = "es" THEN "en" ELSE "es"
      hits == {i \in 1..Len(ps) :
                 ps[i].lang = targetLang /\ StrictEqStr(rs, ps[i].slug)}
      r == IF hits = {} THEN 0 ELSE CHOOSE i \in hits : \A j \in hits : j <= i
      back == Get(ps[r].data, relatedSlug)
  IN
  IF ~Truthy(rs)
    THEN <<Finding("warning", post.filePath, NoTranslationLink)>>
  ELSE IF r = 0
    THEN <<Finding("error", post.filePath, NotFound(rs, targetLang))>>
  ELSE IF ~StrictEqStr(back, post.slug)
    THEN <<Finding("error", post.filePath, Mismatch(rs, back, post.slug))>>
  ELSE <<>>

\* a validator whose self-reference check does not end the iteration: the
\* lookup in the other language follows it
LinkFindingsNoContinue(ps, post) ==
  LET rs == Get(post.data, relatedSlug)
      targetLang == IF post.lang = "es" THEN "en" ELSE "es"
      hits == {i \in 1..Len(ps) :
                 ps[i].lang = targetLang /\ StrictEqStr(rs, ps[i].slug)}
      r == IF hits = {} THEN 0 ELSE CHOOSE i \in hits : \A j \in hits : j <= i
      back == Get(ps[r].data, relatedSlug)
  IN
  IF ~Truthy(rs)
    THEN <<Finding("warning", post.filePath, NoTranslationLink)>>
  ELSE (IF StrictEqStr(rs, post.slug)
          THEN <<Finding("error", post.filePath, PointsToItself(rs))>>
          ELSE <<>>)
       \o (IF r = 0
             THEN <<Finding("error", post.filePath, NotFound(rs, targetLang))>>
           ELSE IF ~StrictEqStr(back, post.slug)
             THEN <<Finding("error", post.filePath,
                            Mismatch(rs, back, post.slug))>>
           ELSE <<>>)

\* a validator that does not look for a translation in a language that has
\* no post at all
LinkFindingsLenient(ps, post) ==
  LET rs == Get(post.data, relatedSlug)
      targetLang == IF post.lang = "es" THEN "en" ELSE "es"
      hits == {i \in 1..Len(ps) :
                 ps[i].lang = targetLang /\ StrictEqStr(rs, ps[i].slug)}
      r == IF hits = {} THEN 0 ELSE CHOOSE i \in hits : \A j \in hits : j <= i
      back == Get(ps[r].data, relatedSlug)
  IN
  IF ~Truthy(rs)
    THEN <<Finding("warning", post.filePath, NoTranslationLink)>>
  ELSE IF StrictEqStr(rs, post.slug)
    THEN <<Finding("error", post.filePath, PointsToItself(rs))>>
  ELSE IF \A i \in 1..Len(ps) : ps[i].lang # targetLang THEN <<>>
  ELSE IF r = 0
    THEN <<Finding("error", post.filePath, NotFound(rs, targetLang))>>
  ELSE IF ~StrictEqStr(back, post.slug)
    THEN <<Finding("error", post.filePath, Mismatch(rs, back, post.slug))>>
  ELSE <<>>

\* lines 221-264: what one iteration of validateRelatedSlugs pushes
LinkFindings(ps, post) ==
  LET rs == Get(post.data, relatedSlug)
      targetLang == OtherLang(post.lang)
      r == MapGet(ps, targetLang, rs)
      back == Get(ps[r].data, relatedSlug)
  IN
  IF ~Truthy(rs)
    THEN <<Finding("warning", post.filePath, NoTranslationLink)>>
  ELSE IF StrictEqStr(rs, post.slug)
    THEN <<Finding("error", post.filePath, PointsToItself(rs))>>
  ELSE IF r = 0
    THEN <<Finding("error", post.filePath, NotFound(rs, targetLang))>>
  ELSE IF ~StrictEqStr(back, post.slug)
    THEN <<Finding("error", post.filePath, Mismatch(rs, back, post.slug))>>
  ELSE <<>>

RECURSIVE validateRelatedSlugsFrom(_, _)
validateRelatedSlugsFrom(ps, i) ==
  IF i > Len(ps) THEN <<>>
  ELSE LinkFindings(ps, ps[i]) \o validateRelatedSlugsFrom(ps, i + 1)

\* validateRelatedSlugs(posts)
validateRelatedSlugs(ps) == validateRelatedSlugsFrom(ps, 1)

\* lines 251 and 261: building the message of this post's finding throws
LinkThrows(ps, post) ==
  LET rs == Get(post.data, relatedSlug)
      r == MapGet(ps, OtherLang(post.lang), rs)
      back == Get(ps[r].data, relatedSlug)
  IN
  /\ Truthy(rs)
  /\ ~StrictEqStr(rs, post.slug)
  /\ IF r = 0 THEN ToPrimitiveThrows(rs)
     ELSE /\ ~StrictEqStr(back, post.slug)
          /\ (ToPrimitiveThrows(rs) \/ ToPrimitiveThrows(back))

\* validateRelatedSlugs(posts) throws instead of returning
validateRelatedSlugsThrows(ps) == \E i \in 1..Len(ps) : LinkThrows(ps, ps[i])

\* -------------------------------------------------------------- reporter

RECURSIVE FilesInOrder(_, _)
\* the keys of errorsByFile in insertion order: each file once, first seen first
FilesInOrder(errors, seen) ==
  IF errors = <<>> THEN <<>>
  ELSE IF Head(errors).file \in seen THEN FilesInOrder(Tail(errors), seen)
  ELSE <<Head(errors).file>>
         \o FilesInOrder(Tail(errors), seen \cup {Head(errors).file})

RECURSIVE FindingLines(_, _)
\* lines 281-284: the findings of one file, in the order they were pushed
FindingLines(errors, file) ==
  IF errors = <<>> THEN <<>>
  ELSE (IF Head(errors).file = file
          THEN <<[k |-> "finding", type |-> Head(errors).type,
                  message |-> Head(errors).message]>>
          ELSE <<>>)
       \o FindingLines(Tail(errors), file)

RECURSIVE printErrorsFrom(_, _, _)
printErrorsFrom(errors, files, i) ==
  IF i > Len(files) THEN <<>>
  ELSE <<[k |-> "file", file |-> files[i]]>> \o FindingLines(errors, files[i])
         \o printErrorsFrom(errors, files, i + 1)

RECURSIVE printErrorsPerFinding(_)
\* a reporter that prints a file header before every single finding
printErrorsPerFinding(errors) ==
  IF errors = <<>> THEN <<>>
  ELSE <<[k |-> "file", file |-> Head(errors).file],
         [k |-> "finding", type |-> Head(errors).type,
          message |-> Head(errors).message]>>
       \o printErrorsPerFinding(Tail(errors))

\* printErrors(errors): the lines it prints
printErrors(errors) == printErrorsFrom(errors, FilesInOrder(errors, {}), 1)

\* errors.filter((e) => e.type === type)
OfType(errors, type) == SelectSeq(errors, LAMBDA e : e.type = type)

\* a report that prints the detail of a severity before its count
ReportLinesDetailFirst(allErrs) ==
  LET errors == SelectSeq(allErrs, LAMBDA e : e.type = "error")
      warnings == SelectSeq(allErrs, LAMBDA e : e.type = "warning")
  IN (IF Len(errors) > 0
        THEN printErrors(errors)
               \o <<[k |-> "count", type |-> "error", n |-> Len(errors)]>>
        ELSE <<>>)
     \o (IF Len(warnings) > 0
           THEN printErrors(warnings)
                  \o <<[k |-> "count", type |-> "warning", n |-> Len(warnings)]>>
           ELSE <<>>)
     \o <<[k |-> "blank"]>>

\* lines 303-316: what main prints when there are findings
ReportLines(allErrs) ==
  LET errors == OfType(allErrs, "error")
      warnings == OfType(allErrs, "warning")
  IN (IF Len(errors) > 0
        THEN <<[k |-> "count", type |-> "error", n |-> Len(errors)]>>
               \o printErrors(errors)
        ELSE <<>>)
     \o (IF Len(warnings) > 0
           THEN <<[k |-> "count", type |-> "warning", n |-> Len(warnings)]>>
                  \o printErrors(warnings)
           ELSE <<>>)
     \o <<[k |-> "blank"]>>

\* a run that treats every finding as a failure
ExitStatusAnyFinding(allErrs) == IF Len(allErrs) > 0 THEN 1 ELSE 0

\* lines 318-320: process.exit(1) when an error was found, else main returns
ExitStatus(allErrs) == IF Len(OfType(allErrs, "error")) > 0 THEN 1 ELSE 0

\* ---------------------------------------------------------------- loader

\* line 118
Langs == <<"es", "en">>

MdExt == <<".", "md">>

\* a language directory: fs.existsSync(langDir), and its entries in the order
\* readdirSync returns them
NoDir == [exists |-> FALSE, entries |-> <<>>]

\* path.join(langDir, file), relative to the blog directory
FilePath(lang, file) == <<lang, "/">> \o file

RECURSIVE Reverse(_)
Reverse(q) == IF q = <<>> THEN <<>> ELSE Reverse(Tail(q)) \o <<Head(q)>>

\* a listing whose order changes from one run to the next
readdirMdUnstable(dir) ==
  LET md == SelectSeq(dir, LAMBDA e : endsWith(e.name, MdExt))
      names == [i \in 1..Len(md) |-> md[i].name]
  IN IF history = <<>> THEN names ELSE Reverse(names)

\* line 122: readdirSync(langDir).filter((f) => f.endsWith(".md"))
readdirMd(dir) ==
  LET md == SelectSeq(dir, LAMBDA e : endsWith(e.name, MdExt))
  IN [i \in 1..Len(md) |-> md[i].name]

\* the directory entry of that name
Entry(dir, name) == CHOOSE e \in {dir[i] : i \in 1..Len(dir)} : e.name = name

\* a loader that catches the failure of one file and goes on with the next
OnReadErrorSkip == "skip"

\* line 126: readFileSync is called outside any try block, so its exception
\* leaves getBlogPosts and main, and reaches main().catch (lines 323-326)
OnReadError == "catch"

\* lines 125-135: the BlogPost built from one file
BlogPost(lang, file, content) ==
  [lang |-> lang,
   slug |-> SubSeq(file, 1, Len(file) - Len(MdExt)),
   filePath |-> FilePath(lang, file),
   data |-> parseFrontmatter(content)]

\* ---------------------------------------------------------- content sets

\* how many times the validator is run over one content set
MaxRuns == 2

Foo == <<"foo">>
Bar == <<"bar">>
FooEn == <<"foo", "-", "en">>

\* the file names (without extension) a language directory may hold
SlugsIn(lang) == IF lang = "es" THEN {Foo, Bar} ELSE {FooEn, Foo}

\* what a header may give as relatedSlug: nothing (<<>>: no such line) or a slug
RelatedChoices == {<<>>, Foo, Bar, FooEn}

KV(key, value) == key \o <<":", SP>> \o value
Quoted(s) == <<DQ>> \o s \o <<DQ>>

RECURSIVE JoinLines(_)
JoinLines(lines) ==
  IF lines = <<>> THEN <<>>
  ELSE IF Len(lines) = 1 THEN lines[1]
  ELSE lines[1] \o <<NL>> \o JoinLines(Tail(lines))

\* a document: the header block, then an article body
Document(lines) ==
  Marker \o <<NL>> \o JoinLines(lines) \o <<NL>> \o Marker
    \o <<NL, NL, "#", "#", SP, "Intro", NL, "note", ":", SP, "text", NL>>

TitleLine == KV(title, Quoted(<<"Hello", SP, "World">>))
DescriptionLine == KV(description, Quoted(<<"About", SP, "it">>))
PubDateLine == KV(pubDate, <<"2025", "-", "01", "-", "15">>)
AuthorLine == KV(author, Quoted(<<"Oscar", SP, "Gallego">>))
TagsLine == KV(tags, <<"[", DQ, "astro", DQ, ",", SP, DQ, "web", DQ, "]">>)
DraftLine == KV(draft, <<"false">>)
ImageLines ==
  << <<"image", ":">>,
     <<SP, SP, "url", ":", SP, DQ, "https", ":", "/", "/", "cdn", "/", "a", DQ>>,
     <<SP, SP, "alt", ":", SP, DQ, "Logo", DQ>> >>
RelatedLines(rs) == IF rs = <<>> THEN <<>> ELSE <<KV(relatedSlug, Quoted(rs))>>

\* the header of a post: "min" has the required fields only, "full" has the
\* optional ones too, in the order the post generator writes them
HeaderLines(profile, rs) ==
  IF profile = "min"
    THEN <<TitleLine, DescriptionLine, PubDateLine>> \o RelatedLines(rs)
    ELSE <<TitleLine, DescriptionLine, PubDateLine, AuthorLine, TagsLine,
           DraftLine>> \o RelatedLines(rs) \o ImageLines

\* a post as it is chosen: its slug and what its header gives as relatedSlug
PostChoices(lang) ==
  {[slug |-> sl, rs |-> r] : sl \in SlugsIn(lang), r \in RelatedChoices}

\* the listings of a language directory: posts with distinct slugs, in the
\* order readdirSync returns them
Listings(lang) ==
  {<<>>} \cup {<<p>> : p \in PostChoices(lang)}
    \cup {l \in PostChoices(lang) \X PostChoices(lang) : l[1].slug # l[2].slug}

\* a listing in one fixed order of its slugs
Sorted(l) == Len(l) < 2 \/ l[1].slug = Bar \/ l[2].slug = FooEn

\* the directory entry of a chosen post
FileOf(p, profile, readable) ==
  [name |-> p.slug \o MdExt, readable |-> readable,
   content |-> Document(HeaderLines(profile, p.rs))]

\* an entry that is not a post
NotesFile ==
  [name |-> <<"notes", ".", "txt">>, readable |-> TRUE,
   content |-> <<"todo", NL>>]

\* the directory of a listing; bad is the position of its unreadable file (0:
\* none)
DirOf(l, profile, bad) ==
  [exists |-> TRUE,
   entries |-> [i \in 1..Len(l) |-> FileOf(l[i], profile, i # bad)]
                 \o (IF profile = "full" THEN <<NotesFile>> ELSE <<>>)]

\* the directories a language may have with posts of that profile
Dirs(lang, profile) == {DirOf(l, profile, 0) : l \in Listings(lang)} \cup {NoDir}

SortedDirs(lang, profile) ==
  {DirOf(l, profile, 0) : l \in {x \in Listings(lang) : Sorted(x)}}
    \cup {NoDir}

\* the directories in which one file cannot be read
BadDirs(lang) ==
  {DirOf(l, "min", b) :
     l \in {x \in Listings(lang) : Sorted(x) /\ x # <<>>}, b \in 1..2}

\* every content set over the slugs, posts with the required fields only
MinSets == {[es |-> e, en |-> n] : e \in Dirs("es", "min"), n \in Dirs("en", "min")}

\* content sets whose posts have every optional field, and a stray file
FullSets ==
  {[es |-> e, en |-> n] :
     e \in SortedDirs("es", "full"), n \in SortedDirs("en", "full")}

\* content sets in which a file cannot be read
UnreadableSets ==
  {[es |-> e, en |-> n] : e \in BadDirs("es"), n \in SortedDirs("en", "min")}
  \cup
  {[es |-> e, en |-> n] : e \in SortedDirs("es", "min"), n \in BadDirs("en")}

\* a relatedSlug given as a nested object with the one property key
NestedSlugLines(key) ==
  <<TitleLine, DescriptionLine, PubDateLine, relatedSlug \o <<":">>,
    <<SP, SP, key, ":", SP, "x">>>>

\* a directory with the one post slug.md whose header has these lines
DirWith(slug, lines) ==
  [exists |-> TRUE,
   entries |-> <<[name |-> slug \o MdExt, readable |-> TRUE,
                  content |-> Document(lines)]>>]

\* content sets in which a relatedSlug is an object with an own property
\* toString or valueOf: in es/foo.md, beside en/foo-en.md or no en directory;
\* or in en/foo-en.md, the post es/foo.md links to
NestedSlugSets ==
  {[es |-> DirWith(Foo, NestedSlugLines(k)), en |-> n] :
     k \in {"toString", "valueOf"},
     n \in {NoDir, DirWith(FooEn, HeaderLines("min", Foo))}}
  \cup
  {[es |-> DirWith(Foo, HeaderLines("min", FooEn)),
    en |-> DirWith(FooEn, NestedSlugLines(k))] : k \in {"toString", "valueOf"}}

ContentSets == MinSets \cup FullSets \cup UnreadableSets \cup NestedSlugSets

\* how a header may give one field: not at all, with nothing after the
\* colon, as an empty quoted string, or with a value
FieldForms == {"omitted", "bare", "quoted-empty", "value"}

\* the header lines (none or one) of field key in form form
FieldLines(key, form, value) ==
  CASE form = "omitted" -> <<>>
    [] form = "bare" -> <<key \o <<":">>>>
    [] form = "quoted-empty" -> <<KV(key, <<DQ, DQ>>)>>
    [] OTHER -> <<KV(key, value)>>

\* a header with each required field in the form c gives it, and every
\* optional field
VariantLines(c) ==
  FieldLines(title, c.title, Quoted(<<"Hello", SP, "World">>))
    \o FieldLines(description, c.description, Quoted(<<"About", SP, "it">>))
    \o FieldLines(pubDate, c.pubDate, <<"2025", "-", "01", "-", "15">>)
    \o <<AuthorLine, TagsLine, DraftLine>>
    \o FieldLines(relatedSlug, c.relatedSlug, Quoted(FooEn))
    \o ImageLines

\* es/foo.md with such a header
VariantDir(c) ==
  [exists |-> TRUE,
   entries |-> <<[name |-> Foo \o MdExt, readable |-> TRUE,
                  content |-> Document(VariantLines(c))]>>]

\* the en directory beside it: the counterpart en/foo-en.md, readable or
\* not, or no directory
CounterpartDirs ==
  {DirOf(<<[slug |-> FooEn, rs |-> Foo]>>, "full", 0),
   DirOf(<<[slug |-> FooEn, rs |-> Foo]>>, "full", 1),
   NoDir}

\* the most lines of the block that ends a varied header
MaxBlockLines == 3

\* the lines of such a block: a key with an empty value, a key with an empty
\* inline array, list items (indented or not), a nested pair whose value has
\* colons, an indented comment
BlockLinePool ==
  {image \o <<":">>,
   tags \o <<":">>,
   KV(tags, <<"[", "]">>),
   <<SP, SP, "-", SP, "a">>,
   <<SP, SP, "-", SP, "b">>,
   <<"-", SP, DQ, "c", DQ>>,
   <<SP, SP, "url", ":", SP, DQ, "https", ":", "/", "/", "cdn", "/", "a", DQ>>,
   <<SP, SP, "#", SP, "note">>}

RECURSIVE BlocksUpTo(_)
BlocksUpTo(n) ==
  IF n = 0 THEN {<<>>}
  ELSE LET shorter == BlocksUpTo(n - 1)
       IN shorter \cup {Append(b, l) : b \in shorter, l \in BlockLinePool}

\* es/foo.md with the required fields, draft, and such a block; beside the
\* counterpart en/foo-en.md
BlockSets ==
  {[es |-> DirWith(Foo, <<TitleLine, DescriptionLine, PubDateLine>>
                          \o RelatedLines(FooEn) \o <<DraftLine>> \o b),
    en |-> DirOf(<<[slug |-> FooEn, rs |-> Foo]>>, "full", 0)] :
     b \in BlocksUpTo(MaxBlockLines) \ {<<>>}}

\* the content sets that vary the header of one post
HeaderSets ==
  {[es |-> VariantDir(c), en |-> n] :
     c \in [title : FieldForms, description : FieldForms, pubDate : FieldForms,
            relatedSlug : FieldForms],
     n \in CounterpartDirs}
  \cup NestedSlugSets \cup BlockSets

\* ------------------------------------------------------------- documents

\* the header of a complete post that links to en/foo-en.md
FullLines == HeaderLines("full", FooEn)

\* body text: key/value lines, then a line of three dashes (a horizontal rule)
KeyLinesThenRule ==
  JoinLines(<<KV(title, Quoted(<<"Other">>)), KV(<<"extra">>, <<"1">>),
              Marker>>) \o <<NL>>

\* body text that looks like a header block: a marker line, key/value lines,
\* a marker line
LateBlock == Marker \o <<NL>> \o KeyLinesThenRule

DocShapes ==
  {"plain", "late-block", "spaced-marker", "no-header", "blank-first",
   "unclosed", "empty-header", "empty-header-late"}

\* a document of each shape: where its marker lines are, and what follows
ShapedDoc(shape) ==
  CASE shape = "plain" -> Document(FullLines)
    [] shape = "late-block" -> Document(FullLines) \o LateBlock
    [] shape = "spaced-marker" ->
         Marker \o <<SP, SP, NL>> \o JoinLines(FullLines) \o <<NL>> \o Marker
           \o <<NL>> \o LateBlock
    [] shape = "no-header" -> <<"#", SP, "Intro", NL>> \o LateBlock
    [] shape = "blank-first" -> <<NL>> \o Document(FullLines)
    [] shape = "unclosed" -> Marker \o <<NL>> \o JoinLines(FullLines) \o <<NL>>
    [] shape = "empty-header" ->
         Marker \o <<NL, NL>> \o Marker \o <<NL, "#", SP, "Intro", NL>>
    [] OTHER -> Marker \o <<NL, NL>> \o Marker \o <<NL>> \o KeyLinesThenRule

ShapeDocs == {ShapedDoc(shape) : shape \in DocShapes}

\* lines that are no well-formed header line where they stand, or are one
\* only after certain lines: blank lines, comments, text without a colon, a
\* pair indented by one space, a pair and a word indented by two, a list
\* item, a dash without a space
OddLines ==
  {<<>>, <<SP, SP>>, <<"#", SP, "note">>, <<SP, SP, "#", SP, "note">>,
   <<"just", SP, "text">>, <<SP, "odd", ":", SP, "v">>,
   <<SP, SP, "odd", ":", SP, "v">>, <<SP, SP, "word">>, <<"-", SP, "item">>,
   <<"-", "x">>}

\* lines with line l put in after the first n of them
InsertLine(lines, n, l) ==
  SubSeq(lines, 1, n) \o <<l>> \o SubSeq(lines, n + 1, Len(lines))

\* the complete header with one odd line at any place
OddLineDocs ==
  {Document(InsertLine(FullLines, n, l)) :
     n \in 0..Len(FullLines), l \in OddLines}

\* the complete header without its image lines
NoImageLines == SubSeq(FullLines, 1, Len(FullLines) - Len(ImageLines))

UrlLine == ImageLines[2]
AltLine == ImageLines[3]

\* what a header may give as image: nothing, a key with nested url and alt
\* lines (present, empty or left out), or a key with a scalar or an array
ImageBlocks ==
  {<<>>}
  \cup {<<image \o <<":">>>> \o u \o a :
          u \in {<<>>, <<UrlLine>>, <<<<SP, SP, "url", ":", SP, DQ, DQ>>>>,
                 <<<<SP, SP, "url", ":">>>>},
          a \in {<<>>, <<AltLine>>, <<<<SP, SP, "alt", ":", SP, DQ, DQ>>>>}}
  \cup {<<KV(image, x)>> :
          x \in {Quoted(<<"pic">>), <<DQ, DQ>>, <<"false">>, <<"true">>,
                 <<"[", "]">>}}

ImageDocs == {Document(NoImageLines \o b) : b \in ImageBlocks}

\* what a header may give as title: a quoted or a bare text, or the words
\* true and false, bare, quoted or capitalised
TitleForms ==
  {TitleLine, KV(title, <<"Hello">>), KV(title, <<"true">>),
   KV(title, Quoted(<<"true">>)), KV(title, <<SQ, "false", SQ>>),
   KV(title, <<"True">>)}

\* what a header may give as draft: nothing, a boolean word bare or quoted,
\* another word, or a key with an empty value
DraftForms ==
  {<<>>, <<DraftLine>>, <<KV(draft, <<"true">>)>>,
   <<KV(draft, Quoted(<<"false">>))>>, <<KV(draft, <<"no">>)>>,
   <<draft \o <<":">>>>}

\* the complete header with these forms of title and draft; a header without
\* a draft line may have a draft pair nested in its image
ScalarDocs ==
  {Document(<<t, DescriptionLine, PubDateLine, AuthorLine, TagsLine>> \o d
              \o RelatedLines(FooEn) \o ImageLines \o n) :
     t \in TitleForms, d \in DraftForms,
     n \in {<<>>, <<<<SP, SP, "draft", ":", SP, "false">>>>}}

\* new Date().toISOString().split("T")[0] on the day the generator runs
Today == <<"2025", "-", "01", "-", "15">>

RECURSIVE JoinQuoted(_)
\* data.tags.map((t) => `"${t}"`).join(", ")
JoinQuoted(ts) ==
  IF ts = <<>> THEN <<>>
  ELSE IF Len(ts) = 1 THEN Quoted(ts[1])
  ELSE Quoted(ts[1]) \o <<",", SP>> \o JoinQuoted(Tail(ts))

\* generateBlogPostContent(data) of the post generator.  An optional field
\* that is undefined is the empty text here: the generator only tests such
\* fields for truthiness.
generateBlogPostContent(data) ==
  JoinLines(
    <<Marker,
      KV(title, Quoted(data.title)),
      KV(description, Quoted(data.description)),
      KV(pubDate, Today),
      KV(author, Quoted(<<"Óscar", SP, "Gallego">>)),
      KV(tags, <<"[">> \o JoinQuoted(data.tags) \o <<"]">>),
      KV(draft, <<"false">>),
      KV(relatedSlug, Quoted(data.relatedSlug))>>
    \o (IF data.imageUrl # <<>>
          THEN <<image \o <<":">>,
                 <<SP, SP>> \o KV(url, Quoted(data.imageUrl)),
                 <<SP, SP>> \o KV(alt, Quoted(IF data.imageAlt # <<>>
                                                THEN data.imageAlt
                                                ELSE data.title))>>
          ELSE <<>>)
    \o <<Marker, <<>>, <<"#", "#", SP>> \o data.title, <<>>,
         <<"<!--", SP, "Write", SP, "your", SP, "content", SP, "here", SP,
           "-->">>, <<>>>>)

\* the data the generator's main collects: a title and a description (both
\* required), the tags entered (maybe none), the related slug (maybe none),
\* the image url built from a Cloudinary id with its alt text (maybe none)
GeneratorInputs ==
  [title : {<<"Hello", SP, "World">>, <<"Astro", ":", SP, "intro">>},
   description : {<<"About", SP, "it">>},
   tags : {<<>>, <<<<"astro">>>>, <<<<"astro">>, <<"web">>>>},
   relatedSlug : {<<>>, FooEn},
   imageUrl : {<<>>, <<"https", ":", "/", "/", "cdn", "/", "a">>},
   imageAlt : {<<>>, <<"Logo">>}]

GeneratedDocs == {generateBlogPostContent(d) : d \in GeneratorInputs}

\* the documents es/foo.md may be
Docs ==
  ShapeDocs \cup OddLineDocs \cup ImageDocs \cup ScalarDocs
    \cup GeneratedDocs

\* a readable entry slug.md with that content
DocFile(slug, content) ==
  [name |-> slug \o MdExt, readable |-> TRUE, content |-> content]

\* two posts in each language: es/bar.md without a header and es/foo.md of
\* any shape, en/foo-en.md with an unclosed header and the complete en/foo.md
PairSets ==
  {[es |-> [exists |-> TRUE,
            entries |-> <<DocFile(Bar, ShapedDoc("no-header")),
                          DocFile(Foo, d)>>],
    en |-> [exists |-> TRUE,
            entries |-> <<DocFile(FooEn, ShapedDoc("unclosed")),
                          DocFile(Foo, Document(HeaderLines("full", Foo)))>>]] :
     d \in ShapeDocs}

\* es/foo.md is one of the documents; beside it the counterpart en/foo-en.md,
\* readable or not, or no en directory
DocSets ==
  {[es |-> [exists |-> TRUE,
            entries |-> <<[name |-> Foo \o MdExt, readable |-> TRUE,
                           content |-> d]>>],
    en |-> n] : d \in Docs, n \in CounterpartDirs}
  \cup NestedSlugSets \cup PairSets

\* --------------------------------------------------------- state machine

\* no utility function has been called
NoCall == [op |-> "none"]

\* no page is open in a browser
NoPage == [open |-> FALSE]

LoaderInit == [lang |-> 1, listed |-> FALSE, files |-> <<>>, i |-> 1]

\* a process about to run main
Fresh ==
  /\ pc = "start"
  /\ loader = LoaderInit
  /\ posts = <<>>
  /\ fieldErrors = <<>>
  /\ linkErrors = <<>>
  /\ allErrors = <<>>
  /\ stdout = <<>>
  /\ stderr = <<>>
  /\ exitCode = -1

Init ==
  /\ fs \in ContentSets
  /\ history = <<>>
  /\ util = NoCall
  /\ scroll = NoPage
  /\ dropdown = NoPage
  /\ Fresh

\* line 289: the banner; line 291 calls getBlogPosts
Start ==
  /\ pc = "start"
  /\ stdout' = Append(stdout, [k |-> "banner"])
  /\ pc' = "getBlogPosts"
  /\ UNCHANGED <<fs, loader, posts, fieldErrors, linkErrors, allErrors, stderr,
                 exitCode, history, util, scroll, dropdown>>

CurrentDir == fs[Langs[loader.lang]]

\* line 120: a language directory that does not exist is skipped
SkipMissingDir ==
  /\ pc = "getBlogPosts"
  /\ loader.lang <= Len(Langs)
  /\ ~loader.listed
  /\ ~CurrentDir.exists
  /\ loader' = [loader EXCEPT !.lang = @ + 1]
  /\ UNCHANGED <<fs, pc, posts, fieldErrors, linkErrors, allErrors, stdout,
                 stderr, exitCode, history, util, scroll,
                 dropdown>>

\* line 122: the directory's .md files
ListDir ==
  /\ pc = "getBlogPosts"
  /\ loader.lang <= Len(Langs)
  /\ ~loader.listed
  /\ CurrentDir.exists
  /\ loader' = [loader EXCEPT !.listed = TRUE,
                              !.files = readdirMd(CurrentDir.entries),
                              !.i = 1]
  /\ UNCHANGED <<fs, pc, posts, fieldErrors, linkErrors, allErrors, stdout,
                 stderr, exitCode, history, util, scroll,
                 dropdown>>

\* lines 125-135: one file is read, parsed and pushed
ReadFile ==
  /\ pc = "getBlogPosts"
  /\ loader.listed
  /\ loader.i <= Len(loader.files)
  /\ LET file == loader.files[loader.i]
         e == Entry(CurrentDir.entries, file)
     IN /\ e.readable
        /\ posts' = Append(posts, BlogPost(Langs[loader.lang], file, e.content))
  /\ loader' = [loader EXCEPT !.i = @ + 1]
  /\ UNCHANGED <<fs, pc, fieldErrors, linkErrors, allErrors, stdout, stderr,
                 exitCode, history, util, scroll, dropdown>>

\* line 126: readFileSync throws; nothing in getBlogPosts or main catches it,
\* so main's promise rejects
ReadFileThrows ==
  /\ pc = "getBlogPosts"
  /\ loader.listed
  /\ loader.i <= Len(loader.files)
  /\ ~Entry(CurrentDir.entries, loader.files[loader.i]).readable
  /\ pc' = IF OnReadError = "catch" THEN "catch" ELSE pc
  /\ loader' = IF OnReadError = "catch" THEN loader
               ELSE [loader EXCEPT !.i = @ + 1]
  /\ UNCHANGED <<fs, posts, fieldErrors, linkErrors, allErrors, stdout, stderr,
                 exitCode, history, util, scroll, dropdown>>

\* line 136: the inner loop ends, the next language follows
EndDir ==
  /\ pc = "getBlogPosts"
  /\ loader.listed
  /\ loader.i > Len(loader.files)
  /\ loader' = [loader EXCEPT !.lang = @ + 1, !.listed = FALSE]
  /\ UNCHANGED <<fs, pc, posts, fieldErrors, linkErrors, allErrors, stdout,
                 stderr, exitCode, history, util, scroll,
                 dropdown>>

CountLang(ps, lang) == Len(SelectSeq(ps, LAMBDA p : p.lang = lang))

\* lines 139 and 292: getBlogPosts returns, main prints what was found
ReturnPosts ==
  /\ pc = "getBlogPosts"
  /\ loader.lang > Len(Langs)
  /\ stdout' = Append(stdout, [k |-> "found", n |-> Len(posts),
                               es |-> CountLang(posts, "es"),
                               en |-> CountLang(posts, "en")])
  /\ pc' = "validateBlogPosts"
  /\ UNCHANGED <<fs, loader, posts, fieldErrors, linkErrors, allErrors, stderr,
                 exitCode, history, util, scroll, dropdown>>

\* line 294
ValidateFields ==
  /\ pc = "validateBlogPosts"
  /\ fieldErrors' = validateBlogPosts(posts)
  /\ pc' = "validateRelatedSlugs"
  /\ UNCHANGED <<fs, loader, posts, linkErrors, allErrors, stdout, stderr,
                 exitCode, history, util, scroll, dropdown>>

\* lines 295-296
ValidateLinks ==
  /\ pc = "validateRelatedSlugs"
  /\ ~validateRelatedSlugsThrows(posts)
  /\ linkErrors' = validateRelatedSlugs(posts)
  /\ allErrors' = fieldErrors \o linkErrors'
  /\ pc' = "report"
  /\ UNCHANGED <<fs, loader, posts, fieldErrors, stdout, stderr, exitCode,
                 history, util, scroll,
                 dropdown>>

\* line 295: validateRelatedSlugs throws; nothing in main catches it, so
\* main's promise rejects
ValidateLinksThrows ==
  /\ pc = "validateRelatedSlugs"
  /\ validateRelatedSlugsThrows(posts)
  /\ pc' = "catch"
  /\ UNCHANGED <<fs, loader, posts, fieldErrors, linkErrors, allErrors, stdout,
                 stderr, exitCode, history, util, scroll,
                 dropdown>>

\* lines 298-301: no finding at all; main returns and the process ends with 0
ReportValid ==
  /\ pc = "report"
  /\ Len(allErrors) = 0
  /\ stdout' = Append(stdout, [k |-> "valid"])
  /\ exitCode' = 0
  /\ pc' = "exited"
  /\ UNCHANGED <<fs, loader, posts, fieldErrors, linkErrors, allErrors, stderr,
                 history, util, scroll,
                 dropdown>>

\* lines 303-320: the findings are printed; process.exit(1) if one is an error
ReportFindings ==
  /\ pc = "report"
  /\ Len(allErrors) # 0
  /\ stdout' = stdout \o ReportLines(allErrors)
  /\ exitCode' = ExitStatus(allErrors)
  /\ pc' = "exited"
  /\ UNCHANGED <<fs, loader, posts, fieldErrors, linkErrors, allErrors, stderr,
                 history, util, scroll,
                 dropdown>>

\* a handler that reports the exception and lets the process end normally
onRejectedSwallow == [line |-> [k |-> "Error:"], status |-> 0]

\* lines 324-325: console.error("Error:", error); process.exit(1)
onRejected == [line |-> [k |-> "Error:"], status |-> 1]

\* lines 323-326: main().catch
Catch ==
  /\ pc = "catch"
  /\ stderr' = Append(stderr, onRejected.line)
  /\ exitCode' = onRejected.status
  /\ pc' = "exited"
  /\ UNCHANGED <<fs, loader, posts, fieldErrors, linkErrors, allErrors, stdout,
                 history, util, scroll,
                 dropdown>>

\* what a finished run leaves to compare a later run with
Outcome ==
  [findings |-> allErrors, exitCode |-> exitCode, stdout |-> stdout,
   stderr |-> stderr]

\* the validator is started again on the unchanged content set: a new process
Rerun ==
  /\ pc = "exited"
  /\ Len(history) + 1 < MaxRuns
  /\ history' = Append(history, Outcome)
  /\ pc' = "start"
  /\ loader' = LoaderInit
  /\ posts' = <<>>
  /\ fieldErrors' = <<>>
  /\ linkErrors' = <<>>
  /\ allErrors' = <<>>
  /\ stdout' = <<>>
  /\ stderr' = <<>>
  /\ exitCode' = -1
  /\ UNCHANGED <<fs, util, scroll, dropdown>>

Next ==
  \/ Start
  \/ SkipMissingDir
  \/ ListDir
  \/ ReadFile
  \/ ReadFileThrows
  \/ EndDir
  \/ ReturnPosts
  \/ ValidateFields
  \/ ValidateLinks
  \/ ValidateLinksThrows
  \/ ReportValid
  \/ ReportFindings
  \/ Catch
  \/ Rerun

Spec == Init /\ [][Next]_vars

\* the runs over the content sets that vary one post's header
InitHeader ==
  /\ fs \in HeaderSets
  /\ history = <<>>
  /\ util = NoCall
  /\ scroll = NoPage
  /\ dropdown = NoPage
  /\ Fresh

SpecHeader == InitHeader /\ [][Next]_vars

\* the runs over the content sets that vary the document of one post
InitDocs ==
  /\ fs \in DocSets
  /\ history = <<>>
  /\ util = NoCall
  /\ scroll = NoPage
  /\ dropdown = NoPage
  /\ Fresh

SpecDocs == InitDocs /\ [][Next]_vars

\* ----------------------------------------------------------- utils/blog.ts
\* In this part a text is a sequence of single characters.

\* line 3 of utils/blog.ts
WORDS_PER_MINUTE == 200

\* the number of pieces content.split(/\s+/) gives: one more than the number
\* of maximal whitespace runs (a run at either end leaves an empty piece)
SplitWhitespaceLength(content) ==
  1 + Cardinality({i \in 1..Len(content) :
                     IsSpace(content[i]) /\ (i = 1 \/ ~IsSpace(content[i - 1]))})

\* Math.ceil(a / b) for a >= 0 and b > 0
Ceil(a, b) == (a + b - 1) \div b

\* lines 14-17: the function has the one parameter content
calculateReadingTime(content) ==
  LET wordCount == SplitWhitespaceLength(content)
  IN Ceil(wordCount, WORDS_PER_MINUTE)

UpperCase ==
  <<"A", "B", "C", "D", "E", "F", "G", "H", "I", "J", "K", "L", "M", "N", "O",
    "P", "Q", "R", "S", "T", "U", "V", "W", "X", "Y", "Z", "É", "Í">>
LowerCase ==
  <<"a", "b", "c", "d", "e", "f", "g", "h", "i", "j", "k", "l", "m", "n", "o",
    "p", "q", "r", "s", "t", "u", "v", "w", "x", "y", "z", "é", "í">>
Digits == {"0", "1", "2", "3", "4", "5", "6", "7", "8", "9"}

\* String.prototype.toLowerCase
toLowerCase(s) ==
  [i \in 1..Len(s) |->
     IF \E n \in 1..Len(UpperCase) : UpperCase[n] = s[i]
       THEN LowerCase[CHOOSE n \in 1..Len(UpperCase) : UpperCase[n] = s[i]]
       ELSE s[i]]

\* the class \w: ASCII letters, digits and the underscore
WordChars ==
  {UpperCase[n] : n \in 1..26} \cup {LowerCase[n] : n \in 1..26} \cup Digits
    \cup {"_"}

\* the characters left of the class [^\w\-]
WordOrHyphen == WordChars \cup {"-"}

RECURSIVE ReplaceRuns(_, _, _, _)
\* s.replace(/C+/g, repl) for a character class C: every maximal run of
\* characters of the class is replaced by repl.  A character is of the class
\* when (c \in cls) = inside, so inside = FALSE gives the negated class [^...].
ReplaceRuns(s, cls, inside, repl) ==
  IF s = <<>> THEN <<>>
  ELSE IF (Head(s) \in cls) = inside
    THEN IF Len(s) > 1 /\ (s[2] \in cls) = inside
           THEN ReplaceRuns(Tail(s), cls, inside, repl)
           ELSE repl \o ReplaceRuns(Tail(s), cls, inside, repl)
  ELSE <<Head(s)>> \o ReplaceRuns(Tail(s), cls, inside, repl)

RECURSIVE CountLeading(_, _)
CountLeading(s, c) ==
  IF s = <<>> \/ Head(s) # c THEN 0 ELSE 1 + CountLeading(Tail(s), c)

RECURSIVE CountTrailing(_, _)
CountTrailing(s, c) ==
  IF s = <<>> \/ s[Len(s)] # c THEN 0
  ELSE 1 + CountTrailing(SubSeq(s, 1, Len(s) - 1), c)

RECURSIVE ReplaceEach(_, _, _)
\* s.replace(/c/g, repl) for one character c
ReplaceEach(s, c, repl) ==
  IF s = <<>> THEN <<>>
  ELSE (IF Head(s) = c THEN repl ELSE <<Head(s)>>)
         \o ReplaceEach(Tail(s), c, repl)

\* lines 19-30 of utils/blog.ts
slugify(text) ==
  LET a == trim(toLowerCase(text))                           \* lines 22-23
      b == ReplaceRuns(a, {SP, NL}, TRUE, <<"-">>)           \* /\s+/g
      c == ReplaceEach(b, "&", <<"-", "a", "n", "d", "-">>)  \* /&/g
      d == ReplaceRuns(c, WordOrHyphen, FALSE, <<>>)         \* /[^\w\-]+/g
      e == ReplaceRuns(d, {"-"}, TRUE, <<"-">>)              \* /\-\-+/g (a
                                                             \* lone "-" stays)
      f == SubSeq(e, CountLeading(e, "-") + 1, Len(e))       \* /^-+/
  IN SubSeq(f, 1, Len(f) - CountTrailing(f, "-"))            \* /-+$/

\* the longest text of the enumerated slugify inputs
MaxTextLen == 3

\* the characters of the enumerated texts: a lower-case and an upper-case
\* letter, a digit, a space, '&', a hyphen, a special character, an accented
\* letter
TextChars == {"a", "B", "5", SP, "&", "-", ".", "é"}

RECURSIVE TextsUpTo(_)
TextsUpTo(n) ==
  IF n = 0 THEN {<<>>}
  ELSE LET shorter == TextsUpTo(n - 1)
       IN shorter \cup {Append(t, c) : t \in shorter, c \in TextChars}

\* the two calls documented in utils/README.md
ReactAndVue ==
  <<"R", "e", "a", "c", "t", SP, "&", SP, "V", "u", "e", ".", "j", "s">>
PorQueAstro ==
  <<"P", "o", "r", SP, "q", "u", "é", SP, "A", "s", "t", "r", "o", SP, "5", SP,
    "e", "s", SP, "I", "n", "c", "r", "e", "í", "b", "l", "e", "!">>

SlugTexts == TextsUpTo(MaxTextLen) \cup {ReactAndVue, PorQueAstro}

\* the most words a content has
MaxWords == 1000

\* a content of n words, each followed by a space but the last, after a
\* newline if lead, before a newline if trail
ContentOf(n, lead, trail) ==
  (IF lead THEN <<NL>> ELSE <<>>)
    \o [i \in 1..(IF n = 0 THEN 0 ELSE 2 * n - 1) |->
          IF i % 2 = 1 THEN "w" ELSE SP]
    \o (IF trail THEN <<NL>> ELSE <<>>)

Contents ==
  {ContentOf(n, lead, trail) :
     n \in {0, 1, WORDS_PER_MINUTE, WORDS_PER_MINUTE + 1, MaxWords - 199,
            MaxWords},
     lead \in BOOLEAN, trail \in BOOLEAN}

\* the argument lists of a call: content alone, or content and wordsPerMinute
ReadingTimeCalls ==
  {<<c>> : c \in Contents}
    \cup {<<c, w>> : c \in Contents, w \in {100, WORDS_PER_MINUTE, 250}}

\* nothing of the validator runs while the utilities are called
InitUtils ==
  /\ util = NoCall
  /\ scroll = NoPage
  /\ dropdown = NoPage
  /\ fs = [es |-> NoDir, en |-> NoDir]
  /\ history = <<>>
  /\ Fresh

\* slugify(text).  The functions keep no state, so one call is followed per
\* behaviour.
CallSlugify ==
  /\ util = NoCall
  /\ \E text \in SlugTexts :
       util' = [op |-> "slugify", args |-> <<text>>, result |-> slugify(text)]
  /\ UNCHANGED <<fs, pc, loader, posts, fieldErrors, linkErrors, allErrors,
                 stdout, stderr, exitCode, history, scroll, dropdown>>

\* calculateReadingTime(content) or calculateReadingTime(content, wpm): an
\* argument beyond the declared parameter is not looked at
CallReadingTime ==
  /\ util = NoCall
  /\ \E args \in ReadingTimeCalls :
       util' = [op |-> "calculateReadingTime", args |-> args,
                result |-> calculateReadingTime(args[1])]
  /\ UNCHANGED <<fs, pc, loader, posts, fieldErrors, linkErrors, allErrors,
                 stdout, stderr, exitCode, history, scroll, dropdown>>

NextUtils == CallSlugify \/ CallReadingTime

SpecUtils == InitUtils /\ [][NextUtils]_vars

\* ---------------------------------------------------- utils/scrollToTop.ts

\* lines 10-12
SCROLL_THRESHOLD_SHOW == 300
SCROLL_THRESHOLD_HIDE == 100
THROTTLE_DELAY == 50

\* Date.now() when the page is loaded, in ms; lastScrollTime starts at 0
\* (line 18), far before it
PageLoadTime == 1000

\* how long after the page load scroll events are followed, in ms
MaxElapsed == 150

\* the scroll positions of the page: the top, either side of the hide
\* threshold, between the thresholds, either side of the show threshold
Positions ==
  {0, SCROLL_THRESHOLD_HIDE - 1, SCROLL_THRESHOLD_HIDE, 200,
   SCROLL_THRESHOLD_SHOW, SCROLL_THRESHOLD_SHOW + 1}

\* the time between two scroll events: one frame, or the throttle delay
Delays == {16, THROTTLE_DELAY}

\* lines 37-52: the button's class 'show' after toggleScrollButton()
toggleScrollButton(page) ==
  LET scrollPosition == page.scrollY
      isVisible == page.show
  IN
  IF ~page.button THEN page.show
  ELSE IF scrollPosition > SCROLL_THRESHOLD_SHOW /\ ~isVisible THEN TRUE
  ELSE IF scrollPosition < SCROLL_THRESHOLD_HIDE /\ isVisible THEN FALSE
  ELSE page.show

\* lines 24-31: executedFunction, the throttled toggleScrollButton, run on a
\* page at its time now
executedFunction(page) ==
  IF page.now - page.lastScrollTime >= THROTTLE_DELAY
    THEN [page EXCEPT !.lastScrollTime = page.now,
                      !.show = toggleScrollButton(page)]
    ELSE page

\* a scroll event on the page: the listener, if there is one, is called
DispatchScroll(page) ==
  IF page.scrollHandler THEN executedFunction(page) ELSE page

\* lines 73-101 (with cleanupScrollToTop, lines 106-129): initScrollToTop()
initScrollToTop(page) ==
  IF ~page.button THEN page
  ELSE LET clean == [page EXCEPT !.scrollHandler = FALSE,
                                 !.lastScrollTime = 0]
           listening == [clean EXCEPT !.scrollHandler = TRUE]
       IN [listening EXCEPT !.show = toggleScrollButton(listening)]

\* nothing else runs while the page is followed
Idle ==
  /\ fs = [es |-> NoDir, en |-> NoDir]
  /\ history = <<>>
  /\ util = NoCall
  /\ Fresh

InitScroll == scroll = NoPage /\ dropdown = NoPage /\ Idle

\* a page is loaded, with or without the button, at some scroll position
\* (the browser restores the position of a reloaded page)
LoadPage ==
  /\ scroll = NoPage
  /\ \E button \in BOOLEAN, y \in Positions :
       scroll' = [open |-> TRUE, button |-> button, show |-> FALSE,
                  scrollY |-> y, now |-> PageLoadTime, lastScrollTime |-> 0,
                  scrollHandler |-> FALSE]
  /\ UNCHANGED <<fs, pc, loader, posts, fieldErrors, linkErrors, allErrors,
                 stdout, stderr, exitCode, history, util, dropdown>>

\* the page script calls initScrollToTop(), at the load and at every later
\* page navigation
InitScrollToTop ==
  /\ scroll.open
  /\ scroll' = initScrollToTop(scroll)
  /\ UNCHANGED <<fs, pc, loader, posts, fieldErrors, linkErrors, allErrors,
                 stdout, stderr, exitCode, history, util, dropdown>>

\* the user scrolls: some time after the last event the page is at another
\* position and the browser dispatches a scroll event
ScrollEvent ==
  /\ scroll.open
  /\ \E y \in Positions, d \in Delays :
       /\ scroll.now + d <= PageLoadTime + MaxElapsed
       /\ scroll' = DispatchScroll([scroll EXCEPT !.scrollY = y,
                                                  !.now = scroll.now + d])
  /\ UNCHANGED <<fs, pc, loader, posts, fieldErrors, linkErrors, allErrors,
                 stdout, stderr, exitCode, history, util, dropdown>>

\* lines 57-68: a click on the visible button calls scrollToTop(); the page
\* goes to the top and the browser dispatches a scroll event
ClickScrollButton ==
  /\ scroll.open
  /\ scroll.button /\ scroll.show /\ scroll.scrollHandler
  /\ \E d \in Delays :
       /\ scroll.now + d <= PageLoadTime + MaxElapsed
       /\ scroll' = DispatchScroll([scroll EXCEPT !.scrollY = 0,
                                                  !.now = scroll.now + d])
  /\ UNCHANGED <<fs, pc, loader, posts, fieldErrors, linkErrors, allErrors,
                 stdout, stderr, exitCode, history, util, dropdown>>

NextScroll == LoadPage \/ InitScrollToTop \/ ScrollEvent \/ ClickScrollButton

SpecScroll == InitScroll /\ [][NextScroll]_vars

\* -------------------------------------------------------- utils/dropdown.ts

\* the most menu items of a dropdown
MaxItems == 3

\* the most hide timers pending at once
MaxTimers == 3

\* the keys of the keydown events
Keys ==
  {"Enter", " ", "Escape", "ArrowDown", "ArrowUp", "Home", "End", "Tab", "a"}

\* lines 25-31 and 153-161: a DropdownManager just made by
\* createDropdownManager over a closed menu with n items.  focus is the
\* document's active element: "button", "outside" or "item", and item the
\* number of the menu item that has it (0 when none has); timers is the
\* number of pending callbacks of setTimeout.
NewDropdown(n) ==
  [open |-> TRUE, isOpen |-> FALSE, items |-> n,
   menu |-> {"hidden"}, icon |-> {}, ariaExpanded |-> "false",
   focus |-> "outside", item |-> 0, timers |-> 0]

\* HTMLElement.focus() on the button, on the menu item i, or on nothing
FocusOn(m, el, i) == [m EXCEPT !.focus = el, !.item = i]

\* lines 36-47: open()
DropdownOpen(m) ==
  [m EXCEPT !.isOpen = TRUE,
            !.menu = (m.menu \ {"hidden", "closing"}) \cup {"open"},
            !.icon = m.icon \cup {"open"},
            !.ariaExpanded = "true",
            !.focus = IF m.items > 0 THEN "item" ELSE m.focus,
            !.item = IF m.items > 0 THEN 1 ELSE m.item]

\* lines 52-64: close(); the callback is left to the timer
DropdownClose(m) ==
  [m EXCEPT !.isOpen = FALSE,
            !.menu = (m.menu \ {"open"}) \cup {"closing"},
            !.icon = m.icon \ {"open"},
            !.ariaExpanded = "false",
            !.timers = m.timers + 1]

\* lines 60-63: the callback of a hide timer
HideCallback(m) ==
  [m EXCEPT !.menu = (m.menu \cup {"hidden"}) \ {"closing"},
            !.timers = m.timers - 1]

\* lines 69-75: toggle()
DropdownToggle(m) == IF m.isOpen THEN DropdownClose(m) ELSE DropdownOpen(m)

\* lines 80-84: handleClickOutside for a click whose target is inside the
\* container or not
handleClickOutside(m, inside) ==
  IF m.isOpen /\ ~inside THEN DropdownClose(m) ELSE m

\* lines 89-140: handleKeydown for a key pressed on the active element.
\* With no menu item, menuItems[0] is undefined and the arrow, Home and End
\* cases end in a TypeError that leaves the state as it is.
handleKeydown(m, key) ==
  LET focusedIndex == IF m.focus = "item" THEN m.item - 1 ELSE -1
      length == m.items
  IN
  IF ~m.isOpen
    THEN IF key \in {"Enter", " "} /\ m.focus = "button"
           THEN DropdownOpen(m) ELSE m
  ELSE IF key = "Escape" THEN FocusOn(DropdownClose(m), "button", 0)
  ELSE IF length = 0 THEN (IF key = "Tab" THEN DropdownClose(m) ELSE m)
  ELSE IF key = "ArrowDown"
    THEN FocusOn(m, "item",
                 IF focusedIndex < length - 1 THEN focusedIndex + 2 ELSE 1)
  ELSE IF key = "ArrowUp"
    THEN FocusOn(m, "item", IF focusedIndex > 0 THEN focusedIndex ELSE length)
  ELSE IF key = "Home" THEN FocusOn(m, "item", 1)
  ELSE IF key = "End" THEN FocusOn(m, "item", length)
  ELSE IF key = "Tab" THEN DropdownClose(m)
  ELSE m

\* the menu can be seen and clicked: it does not carry 'hidden'
MenuVisible(m) == "hidden" \notin m.menu

\* no more hide timers are pending than the model keeps
Bounded(m) == m.timers <= MaxTimers

InitDropdown == dropdown = NoPage /\ scroll = NoPage /\ Idle

\* lines 181-202: createDropdownManager(container)
CreateDropdown ==
  /\ dropdown = NoPage
  /\ \E n \in 0..MaxItems : dropdown' = NewDropdown(n)
  /\ UNCHANGED <<fs, pc, loader, posts, fieldErrors, linkErrors, allErrors,
                 stdout, stderr, exitCode, history, util, scroll>>

\* a click on the button: toggle (line 154), then handleClickOutside for a
\* target inside the container (line 155); the button gets the focus
ClickDropdownButton ==
  /\ dropdown.open
  /\ dropdown' =
       handleClickOutside(DropdownToggle(FocusOn(dropdown, "button", 0)), TRUE)
  /\ Bounded(dropdown')
  /\ UNCHANGED <<fs, pc, loader, posts, fieldErrors, linkErrors, allErrors,
                 stdout, stderr, exitCode, history, util, scroll>>

\* a click elsewhere in the document (line 155)
ClickOutside ==
  /\ dropdown.open
  /\ dropdown' =
       handleClickOutside(FocusOn(dropdown, "outside", 0), FALSE)
  /\ Bounded(dropdown')
  /\ UNCHANGED <<fs, pc, loader, posts, fieldErrors, linkErrors, allErrors,
                 stdout, stderr, exitCode, history, util, scroll>>

\* a click on a visible menu item: handleMenuItemClick (lines 145-148 and
\* 158-160), then handleClickOutside for a target inside the container
ClickMenuItem ==
  /\ dropdown.open
  /\ MenuVisible(dropdown)
  /\ \E i \in 1..dropdown.items :
       dropdown' =
         handleClickOutside(DropdownClose(FocusOn(dropdown, "item", i)), TRUE)
  /\ Bounded(dropdown')
  /\ UNCHANGED <<fs, pc, loader, posts, fieldErrors, linkErrors, allErrors,
                 stdout, stderr, exitCode, history, util, scroll>>

\* a key is pressed while the focus is in the container (line 156)
Keydown ==
  /\ dropdown.open
  /\ dropdown.focus # "outside"
  /\ \E key \in Keys : dropdown' = handleKeydown(dropdown, key)
  /\ Bounded(dropdown')
  /\ UNCHANGED <<fs, pc, loader, posts, fieldErrors, linkErrors, allErrors,
                 stdout, stderr, exitCode, history, util, scroll>>

\* 75 ms after a close its timer fires
HideTimerFires ==
  /\ dropdown.open
  /\ dropdown.timers > 0
  /\ dropdown' = HideCallback(dropdown)
  /\ UNCHANGED <<fs, pc, loader, posts, fieldErrors, linkErrors, allErrors,
                 stdout, stderr, exitCode, history, util, scroll>>

NextDropdown ==
  \/ CreateDropdown
  \/ ClickDropdownButton
  \/ ClickOutside
  \/ ClickMenuItem
  \/ Keydown
  \/ HideTimerFires

SpecDropdown == InitDropdown /\ [][NextDropdown]_vars

\* ------------------------------------------------------------- i18n/utils

defaultLang == "es"

\* the keys of languages
Languages == {"es", "en"}

\* the value null
Null == [t |-> "null"]

\* post.id.replace(/^(en|es)\//, ''): one leading language directory is
\* taken off
StripLangPrefix(id) ==
  IF Len(id) >= 2 /\ id[1] \in {"en", "es"} /\ id[2] = "/"
    THEN SubSeq(id, 3, Len(id))
    ELSE id

\* the callback of posts.find
IsPostOf(post, slug, lang) ==
  /\ StripLangPrefix(post.id) = slug
  /\ startsWith(post.id, <<lang, "/">>)

\* Array.prototype.find with that callback: the first match, or undefined
FindPost(entries, slug, lang) ==
  LET matches == {i \in DOMAIN entries : IsPostOf(entries[i], slug, lang)}
  IN IF matches = {}
       THEN Undefined
       ELSE [t |-> "post",
             v |-> entries[CHOOSE i \in matches : \A j \in matches : i <= j]]

\* the path of the counterpart, under a prefix no language gets
\* (kept for comparison)
FinalPathAlwaysPrefixed(targetLang, translatedSlug) ==
  <<"/", targetLang, "/", "blog", "/">> \o translatedSlug

\* lines 76-81: the path of the counterpart
FinalPath(targetLang, translatedSlug) ==
  IF targetLang = defaultLang
    THEN <<"/", "blog", "/">> \o translatedSlug
    ELSE <<"/", targetLang, "/", "blog", "/">> \o translatedSlug

\* lines 45-83: the body of the try block, given what getCollection('blog')
\* settles with: it returns a value or throws
TranslatedPathBody(loaded, currentSlug, currentLang, targetLang) ==
  IF loaded.rejected THEN [threw |-> TRUE]
  ELSE
  LET entries == loaded.entries
      currentPost == FindPost(entries, currentSlug, currentLang)
  IN
  IF currentPost = Undefined THEN [threw |-> FALSE, value |-> Null]
  ELSE
  LET translatedSlug == currentPost.v.data.relatedSlug IN
  IF ~Truthy(translatedSlug) THEN [threw |-> FALSE, value |-> Null]
  ELSE
  LET translatedPost == FindPost(entries, translatedSlug.v, targetLang) IN
  IF translatedPost = Undefined THEN [threw |-> FALSE, value |-> Null]
  ELSE [threw |-> FALSE, value |-> JStr(FinalPath(targetLang, translatedSlug.v))]

\* lines 43-87: what the promise of getTranslatedBlogPath settles with, and
\* whether console.error was called
getTranslatedBlogPath(loaded, currentSlug, currentLang, targetLang) ==
  LET body == TranslatedPathBody(loaded, currentSlug, currentLang, targetLang)
  IN IF body.threw
       THEN [settled |-> "fulfilled", value |-> Null, logged |-> TRUE]
       ELSE [settled |-> "fulfilled", value |-> body.value, logged |-> FALSE]

\* the ids the glob loader gives the files of src/content/blog: the path
\* from the base, without the extension
PostIdOrder ==
  << <<"es", "/">> \o Foo,
     <<"en", "/">> \o FooEn,
     <<"es", "/">> \o FooEn,
     FooEn,
     <<"es", "/", "en", "/">> \o Foo >>

\* the file of an id is not there
Absent == [t |-> "absent"]

\* data.relatedSlug after the schema: a string, or undefined under the
\* schema without the field
RelatedValues ==
  {Undefined, JStr(<<>>), JStr(Foo), JStr(FooEn), JStr(<<"en", "/">> \o Foo)}

\* the entries of the collection whose files are there
CollectionOf(f) ==
  LET all == [i \in DOMAIN PostIdOrder |->
                [id |-> PostIdOrder[i], data |-> [relatedSlug |-> f[i]]]]
      Present(post) == post.data.relatedSlug # Absent
  IN SelectSeq(all, Present)

Collections ==
  {CollectionOf(f) :
     f \in [DOMAIN PostIdOrder -> RelatedValues \cup {Absent}]}

\* what getCollection('blog') settles with
LoadSucceeds(entries) == [rejected |-> FALSE, entries |-> entries]
LoadFails == [rejected |-> TRUE]

CurrentSlugs == {Foo, FooEn, <<"en", "/">> \o Foo}

InitI18n == scroll = NoPage /\ dropdown = NoPage /\ Idle

\* getTranslatedBlogPath(currentSlug, currentLang, targetLang) over a
\* collection that loads
CallTranslatedPath ==
  /\ util = NoCall
  /\ \E entries \in Collections, slug \in CurrentSlugs,
        from \in Languages, to \in Languages :
       util' = [op |-> "getTranslatedBlogPath",
                loaded |-> LoadSucceeds(entries),
                args |-> <<slug, from, to>>,
                result |->
                  getTranslatedBlogPath(LoadSucceeds(entries), slug, from, to)]
  /\ UNCHANGED <<fs, pc, loader, posts, fieldErrors, linkErrors, allErrors,
                 stdout, stderr, exitCode, history, scroll, dropdown>>

\* the same call when the import or getCollection rejects
CallTranslatedPathLoadFails ==
  /\ util = NoCall
  /\ \E slug \in CurrentSlugs, from \in Languages, to \in Languages :
       util' = [op |-> "getTranslatedBlogPath",
                loaded |-> LoadFails,
                args |-> <<slug, from, to>>,
                result |-> getTranslatedBlogPath(LoadFails, slug, from, to)]
  /\ UNCHANGED <<fs, pc, loader, posts, fieldErrors, linkErrors, allErrors,
                 stdout, stderr, exitCode, history, scroll, dropdown>>

NextI18n == CallTranslatedPath \/ CallTranslatedPathLoadFails

SpecI18n == InitI18n /\ [][NextI18n]_vars

\* ---------------------------------------------------------------- claims

\* the run has ended
Exited == pc = "exited"

\* the run has ended and main().catch did not run
Completed == pc = "exited" /\ stderr = <<>>

\* an exception reached main().catch
Threw == stderr # <<>>

HasError(errors) == \E i \in 1..Len(errors) : errors[i].type = "error"

\* the findings of one file, in order
FindingsOf(errors, file) == SelectSeq(errors, LAMBDA e : e.file = file)

PostIdx == 1..Len(posts)

RelatedOf(p) == Get(p.data, relatedSlug)

IsMismatchMsg(m) ==
  startsWith(m, <<"relatedSlug mismatch: this post links to ", DQ>>)
IsNotFoundMsg(m) ==
  startsWith(m, <<"relatedSlug ", DQ>>) /\ includes(m, <<DQ, " not found in ">>)
IsSelfMsg(m) == startsWith(m, <<"relatedSlug points to itself: ", DQ>>)

\* the link findings of post p in this run
LinksOf(p) == FindingsOf(linkErrors, p.filePath)

HasMismatch(p) ==
  \E i \in 1..Len(LinksOf(p)) :
    LinksOf(p)[i].type = "error" /\ IsMismatchMsg(LinksOf(p)[i].message)

\* C1 as stated: a run exits with failure if and only if it recorded an
\* error finding.
C1_FailureIffErrorFinding ==
  Exited => ((exitCode # 0) <=> HasError(allErrors))

\* C1 amended: a run exits with failure (status 1) if and only if it
\* recorded an error finding or an exception reached main().catch; a run
\* that completes with warnings only, or with no finding, exits with 0.
C1_FailureIffErrorOrException ==
  Exited =>
    /\ exitCode \in {0, 1}
    /\ (exitCode = 1) <=> (HasError(allErrors) \/ Threw)

\* a completed run whose findings are all warnings ended with status 0
C1_WarningsOnlyRun ==
  /\ Completed
  /\ allErrors # <<>>
  /\ ~HasError(allErrors)
  /\ exitCode = 0

\* C4 as stated: when A links to B of the other language and B does not
\* link back to A, both A and B get a mismatch error.
C4_BothSidesMismatch ==
  Completed =>
    \A a, b \in PostIdx :
      (/\ posts[a].lang # posts[b].lang
       /\ StrictEqStr(RelatedOf(posts[a]), posts[b].slug)
       /\ ~StrictEqStr(RelatedOf(posts[b]), posts[a].slug))
      => HasMismatch(posts[a]) /\ HasMismatch(posts[b])

\* B's own link is broken the same way: it names a post c of A's language,
\* other than B's own slug, that does not link back to B
LinksToUnrequiting(b) ==
  /\ Truthy(RelatedOf(posts[b]))
  /\ ~StrictEqStr(RelatedOf(posts[b]), posts[b].slug)
  /\ \E c \in PostIdx :
       /\ posts[c].lang # posts[b].lang
       /\ StrictEqStr(RelatedOf(posts[b]), posts[c].slug)
       /\ ~StrictEqStr(RelatedOf(posts[c]), posts[b].slug)

\* C4 amended: when A links to B of the other language, A's relatedSlug is
\* not A's own slug, and B does not link back to A, A gets exactly one link
\* finding, the mismatch error; B gets a mismatch error exactly when its own
\* relatedSlug names a post of A's language, other than B's own slug, that
\* does not link back to B.
C4_MismatchPerSide ==
  Completed =>
    \A a, b \in PostIdx :
      (/\ posts[a].lang # posts[b].lang
       /\ StrictEqStr(RelatedOf(posts[a]), posts[b].slug)
       /\ ~StrictEqStr(RelatedOf(posts[a]), posts[a].slug)
       /\ ~StrictEqStr(RelatedOf(posts[b]), posts[a].slug))
      => /\ LinksOf(posts[a]) =
              <<Finding("error", posts[a].filePath,
                        Mismatch(RelatedOf(posts[a]), RelatedOf(posts[b]),
                                 posts[a].slug))>>
         /\ HasMismatch(posts[b]) <=> LinksToUnrequiting(b)

\* A links to B, B links to a third post that does not link back: both get
\* a mismatch error
C4_TwoMismatches ==
  /\ Completed
  /\ \E a, b \in PostIdx :
       /\ posts[a].lang # posts[b].lang
       /\ StrictEqStr(RelatedOf(posts[a]), posts[b].slug)
       /\ ~StrictEqStr(RelatedOf(posts[b]), posts[a].slug)
       /\ HasMismatch(posts[a])
       /\ HasMismatch(posts[b])

\* C5 as stated: two posts of opposite languages that link to each other get
\* no link finding, whatever their slugs are.
C5_SymmetricPairClean ==
  Completed =>
    \A a, b \in PostIdx :
      (/\ posts[a].lang # posts[b].lang
       /\ StrictEqStr(RelatedOf(posts[a]), posts[b].slug)
       /\ StrictEqStr(RelatedOf(posts[b]), posts[a].slug))
      => LinksOf(posts[a]) = <<>> /\ LinksOf(posts[b]) = <<>>

\* C5 amended: two posts of opposite languages with different slugs that
\* link to each other get no link finding.
C5_SymmetricPairCleanDistinctSlugs ==
  Completed =>
    \A a, b \in PostIdx :
      (/\ posts[a].lang # posts[b].lang
       /\ posts[a].slug # posts[b].slug
       /\ StrictEqStr(RelatedOf(posts[a]), posts[b].slug)
       /\ StrictEqStr(RelatedOf(posts[b]), posts[a].slug))
      => LinksOf(posts[a]) = <<>> /\ LinksOf(posts[b]) = <<>>

\* a completed run over a set with a pair of posts that link to each other
C5_PairLoaded ==
  /\ Completed
  /\ \E a, b \in PostIdx :
       /\ posts[a].lang # posts[b].lang
       /\ posts[a].slug # posts[b].slug
       /\ StrictEqStr(RelatedOf(posts[a]), posts[b].slug)
       /\ StrictEqStr(RelatedOf(posts[b]), posts[a].slug)
       /\ LinksOf(posts[a]) = <<>>

\* C6: a post whose relatedSlug is its own slug gets exactly one link
\* finding, the error "relatedSlug points to itself", whichever posts the
\* other language has.
C6_SelfReferenceOnly ==
  Completed =>
    \A a \in PostIdx :
      StrictEqStr(RelatedOf(posts[a]), posts[a].slug)
      => LinksOf(posts[a]) =
           <<Finding("error", posts[a].filePath,
                     PointsToItself(RelatedOf(posts[a])))>>

\* a completed run in which a post links to itself while the other language
\* has a post of that very slug
C6_SelfReferenceWithNamesake ==
  /\ Completed
  /\ \E a, b \in PostIdx :
       /\ StrictEqStr(RelatedOf(posts[a]), posts[a].slug)
       /\ posts[b].lang # posts[a].lang
       /\ posts[b].slug = posts[a].slug
       /\ Len(LinksOf(posts[a])) = 1
       /\ IsSelfMsg(LinksOf(posts[a])[1].message)

\* the relatedSlug of post a is a string that is the slug of no post of the
\* other language
Dangling(a) ==
  /\ IsStr(RelatedOf(posts[a]))
  /\ Truthy(RelatedOf(posts[a]))
  /\ \A b \in PostIdx :
       posts[b].lang # posts[a].lang
       => ~StrictEqStr(RelatedOf(posts[a]), posts[b].slug)

NotFoundOnly(a) ==
  LinksOf(posts[a]) =
    <<Finding("error", posts[a].filePath,
              NotFound(RelatedOf(posts[a]), OtherLang(posts[a].lang)))>>

\* C7 as stated: a relatedSlug that names no post of the other language
\* gives exactly the "not found" error and no other link finding.
C7_DanglingIsNotFound ==
  Completed => \A a \in PostIdx : Dangling(a) => NotFoundOnly(a)

\* C7 amended: a relatedSlug that is not the post's own slug and names no
\* post of the other language (even if a post of the same language has that
\* slug) gives exactly the "not found" error and no other link finding.
C7_DanglingNotSelfIsNotFound ==
  Completed =>
    \A a \in PostIdx :
      (Dangling(a) /\ ~StrictEqStr(RelatedOf(posts[a]), posts[a].slug))
      => NotFoundOnly(a)

\* a completed run in which a post's relatedSlug names only a post of its
\* own language, and the post got the "not found" error
C7_OwnLanguageTarget ==
  /\ Completed
  /\ \E a, c \in PostIdx :
       /\ a # c
       /\ posts[c].lang = posts[a].lang
       /\ StrictEqStr(RelatedOf(posts[a]), posts[c].slug)
       /\ Dangling(a)
       /\ NotFoundOnly(a)

\* the posts with field f deleted from the header of post i
RemoveField(ps, i, f) ==
  LET d == ps[i].data
  IN [ps EXCEPT ![i].data = [k \in DOMAIN d \ {f} |-> d[k]]]

\* lines 294-296: the findings of a run over the loaded posts
RunFindings(ps) == validateBlogPosts(ps) \o validateRelatedSlugs(ps)

\* the message of an error finding names field f
NamesField(m, f) ==
  \/ m = MissingRequired(f)
  \/ f = relatedSlug /\ (IsMismatchMsg(m) \/ IsNotFoundMsg(m) \/ IsSelfMsg(m))

\* the number of error findings of a file that name field f
ErrorsNaming(errors, file, f) ==
  Len(SelectSeq(FindingsOf(errors, file),
                LAMBDA e : e.type = "error" /\ NamesField(e.message, f)))

\* post j's link is looked up and resolves to post i
ResolvesTo(j, i) ==
  /\ Truthy(RelatedOf(posts[j]))
  /\ ~StrictEqStr(RelatedOf(posts[j]), posts[j].slug)
  /\ MapGet(posts, OtherLang(posts[j].lang), RelatedOf(posts[j])) = i

ScenarioOne(profile) ==
  [es |-> DirOf(<<[slug |-> Foo, rs |-> FooEn]>>, profile, 0),
   en |-> DirOf(<<[slug |-> FooEn, rs |-> Foo]>>, profile, 0)]

Printed(line) == \E i \in 1..Len(stdout) : stdout[i] = line

MdEntries ==
  LET all == UNION {{<<l, fs[l].entries[i]>> : i \in 1..Len(fs[l].entries)} :
                      l \in {"es", "en"}}
  IN {x \in all : endsWith(x[2].name, MdExt)}

SomeUnreadable == \E x \in MdEntries : ~x[2].readable

\* the findings of a file are on the report
Reported(file) ==
  /\ Printed([k |-> "file", file |-> file])
  /\ \A i \in 1..Len(allErrors) :
       allErrors[i].file = file =>
         Printed([k |-> "finding", type |-> allErrors[i].type,
                  message |-> allErrors[i].message])

\* C10 as stated: when reading one file fails, every other file of both
\* languages is still loaded and validated, and its findings are reported in
\* the same run.
C10_OtherFilesStillReported ==
  (Exited /\ SomeUnreadable) =>
    \A x \in {y \in MdEntries : y[2].readable} :
      /\ \E i \in PostIdx : posts[i].filePath = FilePath(x[1], x[2].name)
      /\ FindingsOf(allErrors, FilePath(x[1], x[2].name))
           = FindingsOf(RunFindings(posts), FilePath(x[1], x[2].name))
      /\ Reported(FilePath(x[1], x[2].name))

\* C10 amended: when reading one file fails, the exception leaves
\* getBlogPosts and main and reaches main().catch: the run prints the
\* top-level error and exits with status 1, no post is validated (not the
\* ones already read, not those of the other language) and no finding is
\* reported.
C10_ReadFailureAbortsRun ==
  (Exited /\ SomeUnreadable) =>
    /\ Threw
    /\ exitCode = 1
    /\ fieldErrors = <<>> /\ linkErrors = <<>> /\ allErrors = <<>>
    /\ stdout = <<[k |-> "banner"]>>

\* a run that had loaded a post before the read of another file failed,
\* while the other language has readable posts too
C10_FailedAfterLoadingSome ==
  /\ Exited
  /\ Threw
  /\ Len(posts) >= 1
  /\ \E x \in MdEntries : x[1] = "en" /\ x[2].readable
  /\ \E x \in MdEntries : x[1] = "es" /\ ~x[2].readable

\* the lines of a document's header block
HeaderOf(content) == split(MatchFrontmatter(content).text, NL)

\* the header lines "f: ..." at the root level
RootLinesOf(content, f) ==
  LET h == HeaderOf(content) IN
  {i \in 1..Len(h) :
     LET l == h[i] IN
     /\ CountLeadingSpace(l) = 0
     /\ includes(l, <<":">>)
     /\ trim(SubSeq(l, 1, indexOf(l, <<":">>) - 1)) = f}

\* the text after the colon of a header line
ValueTextOf(l) == trim(SubSeq(l, indexOf(l, <<":">>) + 1, Len(l)))

\* the header has no line for key f
HeaderOmits(content, f) == RootLinesOf(content, f) = {}

\* the header gives key f with nothing after the colon or an empty quoted
\* string
HeaderGivesEmpty(content, f) ==
  /\ RootLinesOf(content, f) # {}
  /\ \A i \in RootLinesOf(content, f) :
       ValueTextOf(HeaderOf(content)[i]) \in {<<>>, <<DQ, DQ>>, <<SQ, SQ>>}

MissingReported(file, f) ==
  \E i \in 1..Len(allErrors) :
    allErrors[i] = Finding("error", file, MissingRequired(f))

\* C2: a post whose header omits a required field, or gives it an empty
\* value, gets the error "Missing required field: <field>".
C2_OmittedOrEmptyIsMissing ==
  Completed =>
    \A x \in {y \in MdEntries : y[2].readable} :
      \A f \in {title, description, pubDate, relatedSlug} :
        (HeaderOmits(x[2].content, f) \/ HeaderGivesEmpty(x[2].content, f))
        => MissingReported(FilePath(x[1], x[2].name), f)

\* an exception left getBlogPosts: the loop over the languages did not end
ThrownWhileLoading ==
  /\ pc \notin {"start", "getBlogPosts"}
  /\ loader.lang <= Len(Langs)

\* an exception left validateRelatedSlugs
ThrownWhileLinking ==
  /\ pc \notin {"start", "getBlogPosts", "validateBlogPosts",
                "validateRelatedSlugs"}
  /\ loader.lang > Len(Langs)
  /\ validateRelatedSlugsThrows(posts)

\* C11: a run in which an exception was thrown (by readFileSync while
\* loading, or by validateRelatedSlugs) never prints the success message and
\* never ends with status 0; it ends by printing the top-level error and
\* exiting with status 1.
C11_ExceptionExitsOne ==
  (ThrownWhileLoading \/ ThrownWhileLinking) =>
    /\ ~Printed([k |-> "valid"])
    /\ exitCode # 0
    /\ allErrors = <<>>
    /\ Exited => (exitCode = 1 /\ stderr = <<[k |-> "Error:"]>>)

\* a run ended by an exception of validateRelatedSlugs, after every post was
\* loaded and its fields validated
C11_LinkValidationThrew ==
  /\ Exited
  /\ ThrownWhileLinking
  /\ Len(posts) = 2
  /\ Printed([k |-> "found", n |-> 2, es |-> 1, en |-> 1])
  /\ fieldErrors # <<>>
  /\ stderr # <<>>

\* a language subdirectory does not exist
MissingLangs == {l \in {"es", "en"} : ~fs[l].exists}

\* the files the loader is to return: the .md files of the subdirectories
\* that exist, es before en, each in its listing order
PathsIn(l) ==
  IF fs[l].exists
    THEN LET names == readdirMd(fs[l].entries)
         IN [i \in 1..Len(names) |-> FilePath(l, names[i])]
    ELSE <<>>

\* the loader returned without an exception exactly those files
LoadedWhatExists ==
  /\ ~ThrownWhileLoading
  /\ [i \in PostIdx |-> posts[i].filePath] = PathsIn("es") \o PathsIn("en")
  /\ Printed([k |-> "found", n |-> Len(posts), es |-> Len(PathsIn("es")),
              en |-> Len(PathsIn("en"))])

\* the one link finding of post i is the not-found error
OnlyNotFound(i) ==
  LinksOf(posts[i]) =
    <<Finding("error", posts[i].filePath,
              NotFound(RelatedOf(posts[i]), OtherLang(posts[i].lang)))>>

LinesOfKind(k) == {i \in 1..Len(stdout) : stdout[i].k = k}

\* the positions of the per-file detail lines: file headers and findings
DetailLines == LinesOfKind("file") \cup LinesOfKind("finding")

\* the positions at which the total of severity t is printed
CountLines(t) == {i \in LinesOfKind("count") : stdout[i].type = t}

\* the positions of the printed findings of severity t
FindingLinesOfType(t) == {i \in LinesOfKind("finding") : stdout[i].type = t}

\* C13 as stated: in a run with at least one finding the total of the errors
\* and the total of the warnings are both printed, before every per-file
\* detail line.
C13_BothCountsBeforeDetail ==
  (Completed /\ allErrors # <<>>) =>
    \A t \in {"error", "warning"} :
      /\ CountLines(t) # {}
      /\ \A c \in CountLines(t) : \A d \in DetailLines : c < d

\* C13 amended: in a run with at least one finding, the total of a severity
\* is printed exactly once when the run has a finding of that severity and
\* not at all otherwise; it comes before every finding line of that
\* severity, with a file header between it and the first of them.  The
\* errors' total and detail come before the warnings' total, so in a run
\* with both the warnings' total is printed after the errors' detail.
C13_CountBeforeOwnDetail ==
  (Completed /\ allErrors # <<>>) =>
    /\ \A t \in {"error", "warning"} :
         LET n == Len(OfType(allErrors, t)) IN
         IF n = 0 THEN CountLines(t) = {} /\ FindingLinesOfType(t) = {}
         ELSE /\ Cardinality(CountLines(t)) = 1
              /\ \A c \in CountLines(t) :
                   /\ stdout[c].n = n
                   /\ stdout[c + 1].k = "file"
                   /\ \A d \in FindingLinesOfType(t) : c + 1 < d
              /\ Cardinality(FindingLinesOfType(t)) = n
    /\ \A c \in CountLines("warning") :
         \A d \in CountLines("error") \cup FindingLinesOfType("error") : d < c

\* a completed run that printed errors and warnings
C13_ErrorsAndWarningsPrinted ==
  /\ Completed
  /\ CountLines("error") # {} /\ CountLines("warning") # {}
  /\ \E d \in FindingLinesOfType("error") :
       \A c \in CountLines("warning") : d < c

\* the files of a finding sequence
FilesOf(findings) == {findings[i].file : i \in 1..Len(findings)}

\* the position of the first finding of file f
FirstOf(findings, f) ==
  CHOOSE i \in 1..Len(findings) :
    findings[i].file = f /\ \A j \in 1..(i - 1) : findings[j].file # f

\* the positions of the headers of file f among lines
HeadersOf(lines, f) ==
  {h \in 1..Len(lines) : lines[h] = [k |-> "file", file |-> f]}

\* lines are findings grouped by file: each file of findings has one header,
\* followed by all of its findings in their order; the files come in the
\* order of their first finding; nothing else is in lines
GroupedByFile(lines, findings) ==
  /\ Len(lines) = Len(findings) + Cardinality(FilesOf(findings))
  /\ \A f \in FilesOf(findings) :
       LET own == FindingsOf(findings, f) IN
       /\ Cardinality(HeadersOf(lines, f)) = 1
       /\ \A h \in HeadersOf(lines, f) :
            /\ h + Len(own) <= Len(lines)
            /\ \A n \in 1..Len(own) :
                 lines[h + n] = [k |-> "finding", type |-> own[n].type,
                                 message |-> own[n].message]
  /\ \A f, g \in FilesOf(findings) :
       FirstOf(findings, f) < FirstOf(findings, g) =>
         \A h \in HeadersOf(lines, f) : \A j \in HeadersOf(lines, g) : h < j

\* the per-file detail lines of the output, in order
Detail == SelectSeq(stdout, LAMBDA l : l.k \in {"file", "finding"})

\* C14 as stated: the report is the combined finding sequence (errors and
\* warnings together) grouped by file: one header per file followed by all of
\* the file's findings, files in the order of first occurrence, every
\* finding printed once.
C14_GroupedOverall ==
  (Completed /\ allErrors # <<>>) => GroupedByFile(Detail, allErrors)

\* C14 amended: the reporter is applied to the errors and then to the
\* warnings.  The detail of the report is the errors grouped by file
\* followed by the warnings grouped by file: within a severity each file
\* with a finding of that severity has one header followed by all of its
\* findings of that severity, files in the order of first occurrence among
\* the findings of that severity.  Every finding is printed exactly once; a
\* file with errors and warnings has two headers.
C14_GroupedPerSeverity ==
  (Completed /\ allErrors # <<>>) =>
    LET errors == OfType(allErrors, "error")
        warnings == OfType(allErrors, "warning")
        ne == Len(errors) + Cardinality(FilesOf(errors))
    IN
    /\ Len(Detail) = Len(allErrors) + Cardinality(FilesOf(errors))
                       + Cardinality(FilesOf(warnings))
    /\ GroupedByFile(SubSeq(Detail, 1, ne), errors)
    /\ GroupedByFile(SubSeq(Detail, ne + 1, Len(Detail)), warnings)

\* a completed run in which one file has an error and four warnings, and so
\* two headers
C14_FileInBothSections ==
  /\ Completed
  /\ \E i \in PostIdx :
       LET f == posts[i].filePath IN
       /\ Len(OfType(FindingsOf(allErrors, f), "error")) = 1
       /\ Len(OfType(FindingsOf(allErrors, f), "warning")) = 4
       /\ Cardinality({h \in 1..Len(stdout) :
                         stdout[h] = [k |-> "file", file |-> f]}) = 2

\* the letters and digits of a text, accented letters included
Alphanumeric ==
  WordChars \cup {UpperCase[n] : n \in 27..Len(UpperCase)}
    \cup {LowerCase[n] : n \in 27..Len(LowerCase)}

\* the number of words of a text: maximal runs of letters and digits, and
\* each '&' (which is to become the word "and")
WordsOfText(text) ==
  Cardinality({i \in 1..Len(text) :
                 \/ text[i] = "&"
                 \/ /\ text[i] \in Alphanumeric
                    /\ (i = 1 \/ text[i - 1] \notin Alphanumeric)})

\* the number of words of a slug: the non-empty pieces between hyphens
WordsOfSlug(slug) ==
  Cardinality({i \in 1..Len(slug) :
                 slug[i] # "-" /\ (i = 1 \/ slug[i - 1] = "-")})

\* C15: slugify keeps the words of its input apart (a space or a special
\* character between two words leaves a single hyphen between them), keeps
\* an accented letter as its base letter, and gives the documented results
\* slugify("React & Vue.js") = "react-and-vue-js" and
\* slugify("Por qué Astro 5 es Increíble!") = "por-que-astro-5-es-increible".
C15_SlugifyAsDocumented ==
  util.op = "slugify" =>
    LET text == util.args[1] IN
    /\ WordsOfSlug(util.result) = WordsOfText(text)
    /\ ~includes(util.result, <<"-", "-">>)
    /\ text = <<"é">> => util.result = <<"e">>
    /\ text = ReactAndVue =>
         util.result = <<"r", "e", "a", "c", "t", "-", "a", "n", "d", "-", "v",
                         "u", "e", "-", "j", "s">>
    /\ text = PorQueAstro =>
         util.result = <<"p", "o", "r", "-", "q", "u", "e", "-", "a", "s", "t",
                         "r", "o", "-", "5", "-", "e", "s", "-", "i", "n", "c",
                         "r", "e", "i", "b", "l", "e">>

\* the number of whitespace-separated words of a content
WordsOfContent(content) ==
  Cardinality({i \in 1..Len(content) :
                 ~IsSpace(content[i]) /\ (i = 1 \/ IsSpace(content[i - 1]))})

\* C16: calculateReadingTime(content, wordsPerMinute) is the number of
\* whitespace-separated words of content divided by wordsPerMinute (200 when
\* omitted), rounded up; so a larger wordsPerMinute never gives more minutes
\* and gives fewer for the documented content (5 minutes, 4 at 250).
C16_ReadingTimeByWordsPerMinute ==
  util.op = "calculateReadingTime" =>
    LET content == util.args[1]
        wordsPerMinute == IF Len(util.args) = 2 THEN util.args[2] ELSE 200
    IN
    /\ util.result = Ceil(WordsOfContent(content), wordsPerMinute)
    /\ (content = ContentOf(MaxWords, FALSE, FALSE) /\ wordsPerMinute = 250)
         => util.result = 4

\* the posts of the other language whose slug is post i's relatedSlug
TargetsOf(i) ==
  {j \in PostIdx :
     /\ posts[j].lang # posts[i].lang
     /\ StrictEqStr(RelatedOf(posts[i]), posts[j].slug)}

\* the link finding the first applicable rule gives post i: none (<<>>) when
\* no rule applies
FirstRuleFinding(i) ==
  LET p == posts[i]
      rs == RelatedOf(p)
  IN
  IF ~Truthy(rs)
    THEN <<Finding("warning", p.filePath, NoTranslationLink)>>
  ELSE IF StrictEqStr(rs, p.slug)
    THEN <<Finding("error", p.filePath, PointsToItself(rs))>>
  ELSE IF TargetsOf(i) = {}
    THEN <<Finding("error", p.filePath, NotFound(rs, OtherLang(p.lang)))>>
  ELSE IF \E j \in TargetsOf(i) : ~StrictEqStr(RelatedOf(posts[j]), p.slug)
    THEN <<Finding("error", p.filePath,
                   Mismatch(rs, RelatedOf(posts[CHOOSE j \in TargetsOf(i) : TRUE]),
                            p.slug))>>
  ELSE <<>>

\* C17: when validateRelatedSlugs returns, every post has at most one link
\* finding, the one of the first rule that applies in the order: relatedSlug
\* absent (warning), relatedSlug equal to the own slug, relatedSlug not found
\* in the other language, target linking elsewhere; none of them, no
\* finding.
C17_OneLinkFindingByFirstRule ==
  (pc \in {"report", "exited"} /\ ~Threw) =>
    /\ \A i \in PostIdx :
         /\ Len(LinksOf(posts[i])) <= 1
         /\ LinksOf(posts[i]) = FirstRuleFinding(i)
    /\ \A n \in 1..Len(linkErrors) :
         \E i \in PostIdx : linkErrors[n].file = posts[i].filePath

\* a completed run in which two rules apply to one post (it links to itself,
\* and the other language has no post of that slug) and it has the one
\* finding of the first of them, while another post has a mismatch
C17_TwoRulesApply ==
  /\ Completed
  /\ \E i, j \in PostIdx :
       /\ StrictEqStr(RelatedOf(posts[i]), posts[i].slug)
       /\ TargetsOf(i) = {}
       /\ Len(LinksOf(posts[i])) = 1
       /\ IsSelfMsg(LinksOf(posts[i])[1].message)
       /\ HasMismatch(posts[j])

\* the directory entry a post was loaded from
EntryOfPost(p) == Entry(fs[p.lang].entries, p.slug \o MdExt)

\* the header lines of the file of post p
HeaderOfPost(p) == HeaderOf(EntryOfPost(p).content)

\* a line the parser skips: blank, or a comment
IsSkipped(l) == trim(l) = <<>> \/ startsWith(trim(l), <<"#">>)

\* a list item line: its trimmed text begins with "- "
IsItemLine(l) == startsWith(trim(l), <<"-", SP>>)

\* a top-level "key: value" line
IsKeyLine(l) ==
  /\ ~IsSkipped(l)
  /\ ~IsItemLine(l)
  /\ CountLeadingSpace(l) = 0
  /\ includes(l, <<":">>)

KeyOfLine(l) == trim(SubSeq(l, 1, indexOf(l, <<":">>) - 1))

\* line i of header h is the last top-level line of its key
LastLineOfKey(h, i) ==
  /\ IsKeyLine(h[i])
  /\ \A j \in (i + 1)..Len(h) :
       IsKeyLine(h[j]) => KeyOfLine(h[j]) # KeyOfLine(h[i])

\* the lines after key line i, up to the next top-level key line
SegmentOf(h, i) ==
  {j \in (i + 1)..Len(h) : \A m \in (i + 1)..j : ~IsKeyLine(h[m])}

\* the text of a list item, quotes stripped
ItemOf(l) == StripQuotes(trim(SubSeq(trim(l), 3, Len(trim(l)))))

\* the elements of set idx (line numbers) in increasing order
RECURSIVE Ascending(_)
Ascending(idx) ==
  IF idx = {} THEN <<>>
  ELSE LET m == CHOOSE x \in idx : \A y \in idx : x <= y
       IN <<m>> \o Ascending(idx \ {m})

\* the posts are loaded and the run goes on to validate them
Loaded == pc \in {"validateBlogPosts", "report"} \/ Completed

\* C18: a top-level line "key: []" stores a sequence of length 0 under key
\* (here: when no list item follows it and the key is not given again), and a
\* post whose header has "tags: []" gets the warning "No tags specified".
C18_EmptyInlineArrayIsEmpty ==
  Loaded =>
    \A n \in PostIdx :
      LET h == HeaderOfPost(posts[n]) IN
      \A i \in 1..Len(h) :
        (/\ LastLineOfKey(h, i)
         /\ ValueTextOf(h[i]) = <<"[", "]">>
         /\ \A j \in SegmentOf(h, i) : ~IsItemLine(h[j]))
        => /\ Get(posts[n].data, KeyOfLine(h[i])) = JArr(<<>>)
           /\ (Completed /\ KeyOfLine(h[i]) = tags) =>
                \E e \in 1..Len(allErrors) :
                  allErrors[e] = Finding("warning", posts[n].filePath, NoTags)

\* C19: the list item lines that follow a top-level key (with an empty or a
\* plain value), at any indentation, up to the next top-level key, are stored
\* under that key as the sequence of their item texts in document order.
C19_ItemsAppendAtAnyIndent ==
  Loaded =>
    \A n \in PostIdx :
      LET h == HeaderOfPost(posts[n]) IN
      \A i \in 1..Len(h) :
        LET items == {j \in SegmentOf(h, i) : IsItemLine(h[j])}
            order == Ascending(items)
        IN
        (/\ LastLineOfKey(h, i)
         /\ ~startsWith(ValueTextOf(h[i]), <<"[">>)
         /\ items # {})
        => Get(posts[n].data, KeyOfLine(h[i]))
             = JArr([k \in 1..Len(order) |-> ItemOf(h[order[k]])])

\* a line indented by two or more spaces
IsIndented(l) == CountLeadingSpace(l) >= 2 /\ trim(l) # <<>>

\* the text before the first colon of an indented line (all of it when it
\* has no colon), trimmed
NestedKeyOf(l) ==
  LET t == trim(l)
      c == indexOf(t, <<":">>)
  IN IF c = 0 THEN t ELSE trim(SubSeq(t, 1, c - 1))

\* all the text after the first colon, trimmed and without its quotes
NestedValueOf(l) ==
  LET t == trim(l)
      c == indexOf(t, <<":">>)
  IN IF c = 0 THEN <<>> ELSE StripQuotes(trim(SubSeq(t, c + 1, Len(t))))

\* the pairs the lines idx of h give: the last line of a nested key wins
PairsOf(h, idx) ==
  [k \in {NestedKeyOf(h[j]) : j \in idx} |->
     NestedValueOf(h[CHOOSE j \in idx :
                      /\ NestedKeyOf(h[j]) = k
                      /\ \A m \in idx : NestedKeyOf(h[m]) = k => m <= j])]

\* key line i gives its key an empty value
GivesEmpty(h, i) == ValueTextOf(h[i]) \in {<<>>, <<DQ, DQ>>, <<SQ, SQ>>}

\* every object of the post's data holds only pairs of lines of the segment
\* of the key line that made it
OnlyOwnSegment(p, h) ==
  \A i \in 1..Len(h) :
    (/\ IsKeyLine(h[i])
     /\ Get(p.data, KeyOfLine(h[i])).t = "object"
     /\ LastLineOfKey(h, i)) =>
      DOMAIN Get(p.data, KeyOfLine(h[i])).v
        \subseteq {NestedKeyOf(h[j]) : j \in SegmentOf(h, i)}

\* getBlogPosts has just returned the posts
Returned == pc = "validateBlogPosts"

\* C20 as stated: after a top-level key with an empty value every following
\* line indented by two or more spaces, up to the next top-level key, is a
\* nested pair of that key's object (key: the text before the first colon;
\* value: all the text after it, trimmed, quotes stripped); an indented line
\* after a key with a value is attached to no earlier key's object.
C20_IndentedLinesAreNested ==
  Returned =>
    \A n \in PostIdx :
      LET h == HeaderOfPost(posts[n]) IN
      /\ \A i \in 1..Len(h) :
           LET seg == {j \in SegmentOf(h, i) : IsIndented(h[j])}
               d == Get(posts[n].data, KeyOfLine(h[i]))
           IN
           (/\ IsKeyLine(h[i]) /\ GivesEmpty(h, i) /\ LastLineOfKey(h, i)
            /\ seg # {}) =>
             /\ d.t = "object"
             /\ \A k \in DOMAIN PairsOf(h, seg) :
                  k \in DOMAIN d.v /\ d.v[k] = PairsOf(h, seg)[k]
      /\ OnlyOwnSegment(posts[n], h)

\* C20 amended: after a top-level key with an empty value, the following
\* lines indented by two or more spaces that are not comments, up to the
\* next top-level key or the next list item line indented by less than two
\* spaces, are the nested pairs of that key's object, and the object has no
\* other pair.  Such a list item line replaces the key's value by a
\* sequence, and the indented lines after it are lost.  An indented line
\* after a key with a value is attached to no earlier key's object.
C20_NestedUntilItemOrKey ==
  Returned =>
    \A n \in PostIdx :
      LET h == HeaderOfPost(posts[n]) IN
      /\ \A i \in 1..Len(h) :
           LET detach == {j \in SegmentOf(h, i) :
                            IsItemLine(h[j]) /\ CountLeadingSpace(h[j]) < 2}
               seg == {j \in SegmentOf(h, i) :
                         /\ IsIndented(h[j])
                         /\ ~IsSkipped(h[j])
                         /\ \A m \in detach : j < m}
               d == Get(posts[n].data, KeyOfLine(h[i]))
           IN
           (IsKeyLine(h[i]) /\ GivesEmpty(h, i) /\ LastLineOfKey(h, i)) =>
             IF detach = {} THEN d = JObj(PairsOf(h, seg))
             ELSE d = JArr([k \in 1..Cardinality(detach) |->
                              ItemOf(h[Ascending(detach)[k]])])
      /\ OnlyOwnSegment(posts[n], h)

\* a loaded post whose header has "image:", an indented comment and the url
\* line: the object holds the url whole, colons included, and nothing else
C20_UrlKeptWhole ==
  /\ Loaded
  /\ \E n \in PostIdx :
       LET h == HeaderOfPost(posts[n]) IN
       /\ \E i \in 1..Len(h) : IsIndented(h[i]) /\ IsSkipped(h[i])
       /\ Get(posts[n].data, image)
            = JObj(Put(<<>>, url, <<"https", ":", "/", "/", "cdn", "/", "a">>))

\* ------------------------------------------------------------ C21 .. C30

\* the header block as the specification describes it: the document begins
\* with a marker line, and the block ends at the first marker line after it
SpecHeaderBlock(content) ==
  LET e == indexOf(content, <<NL>>)
      q == IF e = 0 THEN 0 ELSE IndexFrom(content, <<NL>> \o Marker, e + 1)
  IN
  IF /\ startsWith(content, Marker)
     /\ e # 0
     /\ trim(SubSeq(content, 4, e - 1)) = <<>>
     /\ q # 0
    THEN [found |-> TRUE, text |-> SubSeq(content, e + 1, q - 1)]
    ELSE [found |-> FALSE, text |-> <<>>]

\* what parsing that block alone gives
FieldsOfFirstBlock(content) ==
  LET b == SpecHeaderBlock(content) IN
  IF b.found THEN ParseLines(ParserInit, split(b.text, NL), 1).data ELSE <<>>

\* the errors "Missing required field" of a file, one per required field
AllFourMissing(file) ==
  \A i \in 1..Len(requiredFields) :
    \E j \in 1..Len(fieldErrors) :
      fieldErrors[j] =
        Finding("error", file, MissingRequired(requiredFields[i]))

\* C21 as stated: every loaded post has the fields of its first header block
\* and no others, the empty mapping when it has no such block; and once the
\* fields are validated a post without a header block has the four errors
\* "Missing required field".
C21_OnlyFirstHeaderBlock ==
  \A i \in 1..Len(posts) :
    LET p == posts[i]
        content == EntryOfPost(p).content
    IN
    /\ Returned => p.data = FieldsOfFirstBlock(content)
    /\ (Completed /\ ~SpecHeaderBlock(content).found) =>
         AllFourMissing(p.filePath)

\* the parser's state before line i of header h
StateBefore(h, i) == ParseLines(ParserInit, SubSeq(h, 1, i - 1), 1)

\* the shapes of line: a top-level "key: value" line
TopLevelShape(l) == CountLeadingSpace(l) = 0 /\ includes(l, <<":">>)

\* a list item after a key
DashItemShape(st, l) == IsItemLine(l) /\ st.currentKey # <<>>

\* a line indented by two or more spaces while an object is open
UnderOpenObject(st, l) == CountLeadingSpace(l) >= 2 /\ st.obj # "null"

\* such a line that is a pair: it has a colon
NestedPairShape(st, l) == UnderOpenObject(st, l) /\ includes(l, <<":">>)

\* every line of every loaded header that is skipped or for which recognised
\* is false leaves the mapping as it was
UnrecognisedLinesChangeNothing(recognised(_, _)) ==
  \A n \in 1..Len(posts) :
    LET h == HeaderOfPost(posts[n]) IN
    \A i \in 1..Len(h) :
      LET st == StateBefore(h, i) IN
      (IsSkipped(h[i]) \/ ~recognised(st, h[i])) =>
        ParseLine(st, h[i]).data = st.data

\* no exception leaves the loader but that of a file that cannot be read
LoaderThrowsOnlyUnreadable ==
  (pc = "catch" /\ fieldErrors = <<>> /\ loader.lang <= Len(Langs)) =>
    ~Entry(CurrentDir.entries, loader.files[loader.i]).readable

\* C22 as stated: parsing never throws, and a header line that is blank, a
\* comment, or none of a top-level pair, a nested pair under an open object
\* and a list item after a key, leaves the mapping built so far unchanged.
C22_MalformedLinesSkipped ==
  /\ LoaderThrowsOnlyUnreadable
  /\ Returned =>
       UnrecognisedLinesChangeNothing(
         LAMBDA st, l : \/ TopLevelShape(l)
                        \/ NestedPairShape(st, l)
                        \/ DashItemShape(st, l))

\* what the code does: a header line leaves the mapping unchanged when it is
\* blank, a comment, or none of a top-level pair, a line indented by two or
\* more spaces under an open object (with or without a colon) and a list
\* item after a key.
C22_UnrecognisedLinesSkipped ==
  /\ LoaderThrowsOnlyUnreadable
  /\ Returned =>
       UnrecognisedLinesChangeNothing(
         LAMBDA st, l : \/ TopLevelShape(l)
                        \/ UnderOpenObject(st, l)
                        \/ DashItemShape(st, l))

\* a loaded header holds, after its first line, a pair indented by one space
\* and the fields of the lines around it are there
C22_IndentedPairAfterKey ==
  /\ Returned
  /\ \E n \in 1..Len(posts) :
       LET h == HeaderOfPost(posts[n]) IN
       /\ \E i \in 2..Len(h) : h[i] = <<SP, "odd", ":", SP, "v">>
       /\ DOMAIN posts[n].data =
            {title, description, pubDate, author, tags, draft, relatedSlug,
             image}

\* validateBlogPosts has just returned the field findings
FieldsValidated == pc = "validateRelatedSlugs"

\* the findings about the image of a file, in order
ImageFindingsOf(file) ==
  SelectSeq(fieldErrors,
            LAMBDA e : /\ e.file = file
                       /\ e.message \in {NoImage, ImageMissingUrl,
                                         ImageMissingAlt})

\* property k of the image of data is absent or empty
NoImageProp(data, k) ==
  ~(/\ data[image].t = "object"
    /\ k \in DOMAIN data[image].v
    /\ data[image].v[k] # <<>>)

\* the cascade: no image gives the warning, no url the error, no alt the
\* warning, else nothing
Cascade(p, noImage) ==
  IF noImage THEN <<Finding("warning", p.filePath, NoImage)>>
  ELSE IF NoImageProp(p.data, url)
    THEN <<Finding("error", p.filePath, ImageMissingUrl)>>
  ELSE IF NoImageProp(p.data, alt)
    THEN <<Finding("warning", p.filePath, ImageMissingAlt)>>
  ELSE <<>>

\* C23 as stated: the image findings of every post are those of the cascade,
\* where the image is absent when the header has no image key.
C23_ImageCascade ==
  FieldsValidated =>
    \A i \in 1..Len(posts) :
      ImageFindingsOf(posts[i].filePath) =
        Cascade(posts[i], image \notin DOMAIN posts[i].data)

\* C23, amended: the image findings of every post are those of the cascade,
\* where the image is absent when the header has no image key or gives it
\* the literal false.
C23_ImageCascadeFalseIsAbsent ==
  FieldsValidated =>
    \A i \in 1..Len(posts) :
      ImageFindingsOf(posts[i].filePath) =
        Cascade(posts[i], \/ image \notin DOMAIN posts[i].data
                          \/ posts[i].data[image] = JBool(FALSE))

\* C23 witness: a post whose image has neither url nor alt got the error
\* about the url and nothing else about the image
C23_NoUrlNoAlt ==
  /\ FieldsValidated
  /\ \E i \in 1..Len(posts) :
       /\ Get(posts[i].data, image) = JObj(<<>>)
       /\ ImageFindingsOf(posts[i].filePath) =
            <<Finding("error", posts[i].filePath, ImageMissingUrl)>>

\* line i of header h gives its key a scalar that no later line replaces: it
\* is the last top-level line of its key, its value is not empty and not an
\* inline array, and no list item follows before the next key
ScalarLine(h, i) ==
  /\ IsKeyLine(h[i])
  /\ StripQuotes(ValueTextOf(h[i])) # <<>>
  /\ ~(/\ startsWith(StripQuotes(ValueTextOf(h[i])), <<"[">>)
       /\ endsWith(StripQuotes(ValueTextOf(h[i])), <<"]">>))
  /\ LastLineOfKey(h, i)
  /\ \A j \in SegmentOf(h, i) : ~IsItemLine(h[j])

\* the header has a top-level draft key
HasDraftKey(h) == \E i \in 1..Len(h) : IsKeyLine(h[i]) /\ KeyOfLine(h[i]) = draft

\* the draft warning of a file was emitted
DraftWarned(file) ==
  \E j \in 1..Len(fieldErrors) :
    fieldErrors[j] = Finding("warning", file, MissingDraft)

\* every scalar line whose value, as token(value) gives it, is true or false
\* is stored as that boolean, every other one as a string; and a post has the
\* draft warning exactly when its header has no draft key
ScalarsAndDraft(token(_)) ==
  \A n \in 1..Len(posts) :
    LET p == posts[n]
        h == HeaderOfPost(p)
    IN
    /\ \A i \in 1..Len(h) :
         ScalarLine(h, i) =>
           LET x == p.data[KeyOfLine(h[i])]
               w == token(ValueTextOf(h[i]))
           IN IF w \in {<<"true">>, <<"false">>}
                THEN x = JBool(w = <<"true">>)
                ELSE x = JStr(StripQuotes(ValueTextOf(h[i])))
    /\ DraftWarned(p.filePath) <=> ~HasDraftKey(h)

\* C24 as stated: a top-level scalar that is the literal token true or false
\* is stored as a boolean, every other non-empty scalar as a string; the draft
\* warning is emitted exactly for the posts whose header has no draft key.
C24_LiteralBooleans ==
  FieldsValidated => ScalarsAndDraft(LAMBDA w : w)

\* C24, amended: a top-level scalar that is true or false once one leading
\* and one trailing quote are removed is stored as a boolean, every other
\* non-empty scalar as a string; the draft warning is emitted exactly for the
\* posts whose header has no draft key.
C24_BooleansAfterUnquoting ==
  FieldsValidated => ScalarsAndDraft(StripQuotes)

\* C24 witness: a header with draft: true and a bare word as title has been
\* validated; it has no draft warning
C24_DraftTrueAndQuotedFalse ==
  /\ FieldsValidated
  /\ \E n \in 1..Len(posts) :
       /\ Get(posts[n].data, draft) = JBool(TRUE)
       /\ Get(posts[n].data, title) = JStr(<<"Hello">>)
       /\ ~DraftWarned(posts[n].filePath)

\* the messages of the field findings in the stated order; the three image
\* messages share the last place
FieldMessageOrder ==
  <<{MissingRequired(title)}, {MissingRequired(description)},
    {MissingRequired(pubDate)}, {MissingRequired(relatedSlug)},
    {MissingDraft}, {NoTags}, {MissingAuthor},
    {NoImage, ImageMissingUrl, ImageMissingAlt}>>

IsFieldMessage(m) == \E r \in 1..Len(FieldMessageOrder) : m \in FieldMessageOrder[r]

\* the place of a message in that order; the messages of link findings come
\* after all of them
RankOf(m) ==
  IF IsFieldMessage(m)
    THEN CHOOSE r \in 1..Len(FieldMessageOrder) : m \in FieldMessageOrder[r]
    ELSE Len(FieldMessageOrder) + 1

\* the place in the load order of the post of a file
LoadIndexOf(file) == CHOOSE n \in 1..Len(posts) : posts[n].filePath = file

\* finding a comes before finding b in the stated order
ComesBefore(a, b) ==
  LET la == ~IsFieldMessage(a.message)
      lb == ~IsFieldMessage(b.message)
      ia == LoadIndexOf(a.file)
      ib == LoadIndexOf(b.file)
  IN \/ ~la /\ lb
     \/ la = lb /\ ia < ib
     \/ la = lb /\ ia = ib /\ RankOf(a.message) < RankOf(b.message)

\* main has the combined finding sequence
Combined == pc = "report" \/ Completed

\* C25: in the combined sequence all field findings come before all link
\* findings; within each validator the findings follow the load order of
\* their posts, all es posts before all en posts; and within one post the
\* field findings follow the order title, description, pubDate, relatedSlug,
\* draft, tags, author, image.
C25_FindingOrder ==
  Combined =>
    /\ \A i, j \in 1..Len(posts) :
         i < j => ~(posts[i].lang = "en" /\ posts[j].lang = "es")
    /\ \A i \in 1..Len(allErrors) - 1 :
         ComesBefore(allErrors[i], allErrors[i + 1])

\* C25 witness: the combined sequence of a run over two es and two en posts
\* has all four required-field errors and the four warnings of an es post,
\* field findings of an en post, and link findings
C25_AllKindsOfFindings ==
  /\ Combined
  /\ Len(posts) = 4
  /\ Len(FindingsOf(fieldErrors, posts[1].filePath)) = Len(FieldMessageOrder)
  /\ FindingsOf(fieldErrors, posts[3].filePath) # <<>>
  /\ posts[3].lang = "en"
  /\ linkErrors # <<>>

\* C26 as stated: after initScrollToTop, whenever the scroll events so far
\* were the last ones, the button has the class 'show' if the page is more
\* than 300px from the top and does not have it if the page is less than
\* 100px from the top.
C26_ButtonFollowsFinalPosition ==
  (scroll.open /\ scroll.button /\ scroll.scrollHandler) =>
    /\ scroll.scrollY > SCROLL_THRESHOLD_SHOW => scroll.show
    /\ scroll.scrollY < SCROLL_THRESHOLD_HIDE => ~scroll.show

\* the posts of the other language that have the slug post n gives as
\* relatedSlug
CounterpartsOf(n) ==
  {m \in 1..Len(posts) :
     /\ posts[m].lang # posts[n].lang
     /\ RelatedOf(posts[n]) = JStr(posts[m].slug)}

\* C27: when validateRelatedSlugs returns no finding, relatedSlug pairs the
\* es posts with the en posts one to one: every post has exactly one
\* counterpart, which links back to it; no two posts have the same
\* counterpart; no post gives its own slug; and both languages have as many
\* posts.
C27_NoLinkFindingMeansPairing ==
  (Combined /\ linkErrors = <<>>) =>
    /\ \A n \in 1..Len(posts) :
         /\ Cardinality(CounterpartsOf(n)) = 1
         /\ \A m \in CounterpartsOf(n) : n \in CounterpartsOf(m)
         /\ RelatedOf(posts[n]) # JStr(posts[n].slug)
    /\ \A n, k \in 1..Len(posts) :
         n # k => CounterpartsOf(n) \cap CounterpartsOf(k) = {}
    /\ CountLang(posts, "es") = CountLang(posts, "en")

\* C27 witness: two es posts and two en posts without any link finding
C27_TwoPairs ==
  /\ Combined
  /\ linkErrors = <<>>
  /\ CountLang(posts, "es") = 2
  /\ CountLang(posts, "en") = 2

\* the data the generator made the file of post p from
InputsOf(p) ==
  {d \in GeneratorInputs :
     EntryOfPost(p).content = generateBlogPostContent(d)}

\* the link findings of a file that say its relatedSlug was not found
NotFoundOf(file) ==
  SelectSeq(linkErrors,
            LAMBDA e : e.file = file /\ IsNotFoundMsg(e.message))

\* the findings of a file that say it has no relatedSlug
MissingSlugOf(file) ==
  SelectSeq(allErrors,
            LAMBDA e : /\ e.file = file
                       /\ e.message \in {MissingRequired(relatedSlug),
                                         NoTranslationLink})

\* parsing the generated text gives back the generator's data
ParsesBack(p, d) ==
  /\ Get(p.data, title) = JStr(d.title)
  /\ Get(p.data, description) = JStr(d.description)
  /\ Get(p.data, tags) = JArr(d.tags)
  /\ IF d.relatedSlug # <<>>
       THEN Get(p.data, relatedSlug) = JStr(d.relatedSlug)
       ELSE Get(p.data, relatedSlug) \in {Undefined, JStr(<<>>)}
  /\ IF d.imageUrl # <<>>
       THEN /\ Prop(Get(p.data, image), url) = JStr(d.imageUrl)
            /\ Prop(Get(p.data, image), alt) =
                 JStr(IF d.imageAlt # <<>> THEN d.imageAlt ELSE d.title)
       ELSE Get(p.data, image) = Undefined

\* C28 as stated: a post whose file the generator wrote is loaded with the
\* title, description, tags, relatedSlug and image the generator was given;
\* and if it was given no relatedSlug the validator reports the relatedSlug
\* as missing and not as not found.
C28_GeneratedPostParsesBack ==
  \A n \in 1..Len(posts) :
    \A d \in InputsOf(posts[n]) :
      /\ Returned => ParsesBack(posts[n], d)
      /\ (Combined /\ d.relatedSlug = <<>>) =>
           /\ MissingSlugOf(posts[n].filePath) # <<>>
           /\ NotFoundOf(posts[n].filePath) = <<>>

\* C29 as stated: whenever isOpen is true the menu does not carry the class
\* 'hidden' and aria-expanded is 'true'.
C29_OpenMenuIsShown ==
  (dropdown.open /\ dropdown.isOpen) =>
    /\ "hidden" \notin dropdown.menu
    /\ dropdown.ariaExpanded = "true"

\* the call getTranslatedBlogPath has been made
PathAsked == util.op = "getTranslatedBlogPath"

\* the posts of the collection of the call whose id is <lang>/<slug>
PostsAt(lang, slug) ==
  IF util.loaded.rejected THEN {}
  ELSE {i \in DOMAIN util.loaded.entries :
          util.loaded.entries[i].id = <<lang, "/">> \o slug}

\* the relatedSlug strings declared by the current post of the call
DeclaredBy(lang, slug) ==
  {util.loaded.entries[i].data.relatedSlug.v : i \in
     {j \in PostsAt(lang, slug) :
        util.loaded.entries[j].data.relatedSlug.t = "string"}}

\* the counterparts of the call: the declared relatedSlug of the current
\* post when a post of that slug exists in the target language
TranslationsOf(slug, from, to) ==
  {r \in DeclaredBy(from, slug) : PostsAt(to, r) # {}}

\* C30: getTranslatedBlogPath settles with a path exactly when the current
\* post exists in currentLang, declares a relatedSlug and a post of that
\* slug exists in targetLang; the path is /blog/<relatedSlug> for es and
\* /<targetLang>/blog/<relatedSlug> otherwise; in every other case, a
\* failing load included, it settles with null; it never rejects.
C30_TranslatedPath ==
  PathAsked =>
    LET slug == util.args[1]
        from == util.args[2]
        to == util.args[3]
        found == TranslationsOf(slug, from, to)
    IN
    /\ util.result.settled = "fulfilled"
    /\ found = {} => util.result.value = Null
    /\ \A r \in found :
         util.result.value =
           JStr(IF to = "es"
                  THEN <<"/", "blog", "/">> \o r
                  ELSE <<"/", to, "/", "blog", "/">> \o r)

\* C30 witness: a call from an English post whose counterpart exists has
\* given the unprefixed Spanish path
C30_SpanishPathGiven ==
  /\ PathAsked
  /\ util.args = <<FooEn, "en", "es">>
  /\ TranslationsOf(FooEn, "en", "es") = {Foo}
  /\ util.result.value = JStr(<<"/", "blog", "/">> \o Foo)

=============================================================================
